---- MODULE Spec2Model ----
(***************************************************************************)
(* Model of the compositor core of swash_demo: the Compositor              *)
(* (src/src/comp/mod.rs), the glyph cache (src/src/comp/image_cache/       *)
(* glyph.rs) and the image cache and batch manager they drive.             *)
(*                                                                         *)
(* f32 values are integers counting units of 2^-20 pixel; F32Round rounds  *)
(* to the 24-bit significand of an f32 (round to nearest, ties to even),   *)
(* so every number below 16.0 that is a multiple of 2^-20 is exact, and    *)
(* sums that leave that range are rounded as the hardware rounds them.     *)
(***************************************************************************)
EXTENDS Integers, Sequences, FiniteSets, TLC

\* ------------------------------------------------------------------ bounds

\* Largest epoch begin() is allowed to leave (the counter is a u64).
MaxEpoch == 10

\* Total number of images ever allocated in a run (image ids are never reused).
MaxImages == 2

\* Largest number of glyphs in one draw_glyphs call.
MaxGlyphs == 1

\* Draw calls are accepted while the batch holds fewer primitives than this.
MaxBatch == 1

\* Calls other than begin() made on the compositor in a run.
MaxCalls == 3

\* Frames and calls of the runs that drive the caches directly.
GCMaxEpoch == 1
GCMaxCalls == 4
GCMaxGlyphs == 2

\* max_texture_size passed to Compositor::new: the side of a texture page.
MaxTextureSize == 2

\* Frames, calls and glyphs per run of the underlined runs.
UMaxEpoch == 1
UMaxCalls == 2
UMaxGlyphs == 2

\* Sessions opened in the runs that exercise the font-entry keys.
CMaxCalls == 2

\* ------------------------------------------------------------------ f32

Unit == 2^20

Abs(a) == IF a < 0 THEN -a ELSE a

RECURSIVE Ulp(_)
\* Spacing of f32 values around magnitude a (in units of 2^-20).
Ulp(a) == IF a < 2^24 THEN 1 ELSE 2 * Ulp(a \div 2)

\* A magnitude a rounded to the multiples of u: to the nearest, ties to the
\* even multiple.
RoundMag(a, u) ==
    LET lo == (a \div u) * u
        r == a - (a \div u) * u
    IN IF 2 * r < u THEN lo
       ELSE IF 2 * r > u THEN lo + u
       ELSE IF (a \div u) % 2 = 0 THEN lo ELSE lo + u

\* Round to the nearest f32, ties to the even significand.
F32Round(v) == IF v < 0 THEN -RoundMag(-v, Ulp(-v)) ELSE RoundMag(v, Ulp(v))

F32Add(a, b) == F32Round(a + b)
F32Sub(a, b) == F32Round(a - b)
F32Mul(a, n) == F32Round(a * n)

\* f32::floor
Floor(a) == (a \div Unit) * Unit

\* f32::round: half away from zero
RoundF(a) == IF a >= 0 THEN ((a + Unit \div 2) \div Unit) * Unit
             ELSE -(((-a + Unit \div 2) \div Unit) * Unit)

\* `as i32` of a non-NaN f32: truncation toward zero
AsI32(a) == IF a >= 0 THEN a \div Unit ELSE -((-a) \div Unit)

\* `as u16` of an f32: truncation, saturating at the ends of the range
AsU16(a) == IF a <= 0 THEN 0 ELSE IF a \div Unit > 65535 THEN 65535 ELSE a \div Unit

Min(a, b) == IF a < b THEN a ELSE b
Max(a, b) == IF a > b THEN a ELSE b

\* ------------------------------------------------------------------ SubpixelOffset

SubpixelOffset == {"Zero", "Quarter", "Half", "ThreeQuarters"}

\* The match of quantize on the eighth the fraction falls in
Phase(apos) ==
    IF apos \in 1..2 THEN "Quarter"
    ELSE IF apos \in 3..4 THEN "Half"
    ELSE IF apos \in 5..6 THEN "ThreeQuarters"
    ELSE "Zero"

\* quantize taking the fraction from the truncated position
quantize_trunc(pos) == Phase(AsI32(F32Mul(F32Sub(pos, AsI32(pos) * Unit), 8)))

\* quantize with every interval moved up by an eighth
quantize_shifted(pos) == Phase(AsI32(F32Mul(F32Sub(pos, Floor(pos)), 8)) - 1)

\* SubpixelOffset::quantize
quantize(pos) == Phase(AsI32(F32Mul(F32Sub(pos, Floor(pos)), 8)))

\* SubpixelOffset::to_f32
to_f32(s) ==
    CASE s = "Zero" -> 0
      [] s = "Quarter" -> Unit \div 4
      [] s = "Half" -> Unit \div 2
      [] s = "ThreeQuarters" -> 3 * (Unit \div 4)

\* ------------------------------------------------------------------ Option

None == << >>
Some(v) == << v >>
IsSome(o) == Len(o) = 1
Unwrap(o) == o[1]

EmptyMap == [k \in {} |-> 0]
Restrict(f, S) == [k \in S |-> f[k]]
MapPut(f, k, v) == [j \in DOMAIN f \cup {k} |-> IF j = k THEN v ELSE f[j]]

\* ------------------------------------------------------------------ Coords

\* Coords::new filling the inline array without keeping the length
CoordsNew_unsized(coords) ==
    LET len == Len(coords)
    IN IF len = 0 THEN [tag |-> "None", len |-> 0, arr |-> << >>]
       ELSE IF len <= 8
            THEN [tag |-> "Inline", len |-> 8,
                  arr |-> [i \in 1..8 |-> IF i <= len THEN coords[i] ELSE 0]]
            ELSE [tag |-> "Heap", len |-> 0, arr |-> coords]

\* Coords::new: the owned storage of a coordinate slice
CoordsNew(coords) ==
    LET len == Len(coords)
    IN IF len = 0 THEN [tag |-> "None", len |-> 0, arr |-> << >>]
       ELSE IF len <= 8
            THEN [tag |-> "Inline", len |-> len,
                  arr |-> [i \in 1..8 |-> IF i <= len THEN coords[i] ELSE 0]]
            ELSE [tag |-> "Heap", len |-> 0, arr |-> coords]

\* Coords::Ref: the borrowed view used for lookup
CoordsRef(coords) == [tag |-> "Ref", len |-> 0, arr |-> coords]

\* Coords::as_ref
as_ref(c) ==
    CASE c.tag = "None" -> << >>
      [] c.tag = "Inline" -> SubSeq(c.arr, 1, c.len)
      [] c.tag = "Heap" -> c.arr
      [] c.tag = "Ref" -> c.arr

\* impl PartialEq for Coords
CoordsEq(a, b) == as_ref(a) = as_ref(b)

\* ------------------------------------------------------------------ rasterizer

\* The glyph image the scaler leaves in scaled_image for a glyph id, or None
\* when render_into fails.  Glyph 1 is an outline glyph (rendered with
\* Format::CustomSubpixel, four bytes per pixel) with ink on the row under its
\* top, glyph 2 a colour bitmap lying on the baseline, glyph 3 has no outline,
\* glyph 4 is a bitmap wider than a texture, glyph 5 an outline glyph whose
\* row under the top is blank, glyph 6 an outline glyph two pixels wide with
\* ink in the second pixel of the row under its top.
Render(fontId, id, offset) ==
    CASE id = 1 -> Some([left |-> 0, top |-> 0, width |-> 1, height |-> 2,
                         content |-> "SubpixelMask",
                         data |-> << 0, 0, 0, 0, 255, 255, 255, 0 >>])
      [] id = 2 -> Some([left |-> 1, top |-> 1, width |-> 1, height |-> 1,
                         content |-> "Color", data |-> << 9, 9, 9, 255 >>])
      [] id = 4 -> Some([left |-> 0, top |-> 1, width |-> MaxTextureSize + 1,
                         height |-> 1, content |-> "Color",
                         data |-> [i \in 1..(4 * (MaxTextureSize + 1)) |-> 9]])
      [] id = 5 -> Some([left |-> 0, top |-> 0, width |-> 1, height |-> 2,
                         content |-> "SubpixelMask",
                         data |-> << 255, 255, 255, 0, 0, 0, 0, 0 >>])
      [] id = 6 -> Some([left |-> 0, top |-> 0, width |-> 2, height |-> 2,
                         content |-> "SubpixelMask",
                         data |-> << 0, 0, 0, 0, 0, 0, 0, 0,
                                     0, 0, 0, 0, 255, 255, 255, 0 >>])
      [] OTHER -> None

U16Max == 65535

\* slice.get(a..b): the elements a..b-1 (0-based) or None when out of range
SliceGet(data, a, b) == IF b <= Len(data) THEN Some(SubSeq(data, a + 1, b)) ELSE None

RECURSIVE ScanRow(_, _, _, _)
\* One row of DescenderRegion::new; st = [start, end, has_ink, in_ink],
\* ink[i] tells whether column i-1 holds ink.
ScanRow(ink, i, w, st) ==
    IF i > Len(ink) THEN
        IF st.in_ink THEN [st EXCEPT !.end = w] ELSE st
    ELSE IF ink[i] THEN
        ScanRow(ink, i + 1, w,
                [st EXCEPT !.start = IF st.has_ink THEN @ ELSE Min(@, i - 1),
                           !.has_ink = TRUE, !.in_ink = TRUE])
    ELSE IF st.in_ink THEN
        ScanRow(ink, i + 1, w, [st EXCEPT !.in_ink = FALSE, !.end = Max(@, i - 1)])
    ELSE ScanRow(ink, i + 1, w, st)

\* Ink flags of one row: a mask byte, or the four channels of a colour pixel
RowInk(row, content) ==
    IF content = "Mask" THEN [i \in 1..Len(row) |-> row[i] # 0]
    ELSE [i \in 1..(Len(row) \div 4) |->
            \E c \in 1..4 : row[4 * (i - 1) + c] # 0]

\* The running (start, end) of a row scan
StartEnd(st) == [start |-> st.start, end |-> st.end]

\* The scan of a row that is in range of the data; other rows are skipped
ScanSlice(row, content, w, se) ==
    IF IsSome(row)
    THEN StartEnd(ScanRow(RowInk(Unwrap(row), content), 1, w,
                          [start |-> se.start, end |-> se.end,
                           has_ink |-> FALSE, in_ink |-> FALSE]))
    ELSE se

\* Bytes per pixel of the glyph image
Bpp(content) == IF content = "Mask" THEN 1 ELSE 4

RECURSIVE ScanRows(_, _, _, _)
ScanRows(image, y, y2, se) ==
    IF y >= y2 THEN se
    ELSE ScanRows(image, y + 1, y2,
                  ScanSlice(SliceGet(image.data, y * image.width * Bpp(image.content),
                                     (y + 1) * image.width * Bpp(image.content)),
                            image.content, image.width, se))

\* DescenderRegion::new scanning from the row of the top itself
DescenderRegionNew_from_top(image) ==
    IF image.top >= 0 /\ image.top < image.height /\ image.width < U16Max
    THEN ScanRows(image, image.top, image.height, [start |-> U16Max, end |-> 0])
    ELSE [start |-> U16Max, end |-> 0]

\* DescenderRegion::new
DescenderRegionNew(image) ==
    IF image.top + 1 >= 0 /\ image.top + 1 < image.height /\ image.width < U16Max
    THEN ScanRows(image, image.top + 1, image.height, [start |-> U16Max, end |-> 0])
    ELSE [start |-> U16Max, end |-> 0]

\* DescenderRegion::range, in whole pixels
DescRange(desc) == IF desc.start <= desc.end THEN Some(<< desc.start, desc.end >>) ELSE None

\* ------------------------------------------------------------------ ImageCache

\* Frames an evictable image may stay unused before it can be reclaimed.
ImageRetention == 8

\* Who allocated an image: the caller of add_image, or the glyph cache for a
\* font entry.
UserOwned == [kind |-> "user", font |-> << >>]
GlyphOwned(font_entry) == [kind |-> "glyph", font |-> font_entry]

\* An image that is no longer resident; owner records who allocated it.
DeadImage(owner) ==
    [valid |-> FALSE, epoch |-> 0, evictable |-> FALSE, alpha |-> FALSE,
     page |-> 0, x |-> 0, y |-> 0, w |-> 0, h |-> 0, owner |-> owner]

\* ImageCache::new
ImageCacheNew == [images |-> << >>, pages |-> 0, events |-> << >>]

\* The texels of page p covered by resident images
Occupied(images, p) ==
    { c \in (0..(MaxTextureSize - 1)) \X (0..(MaxTextureSize - 1)) :
        \E i \in 1..Len(images) :
            /\ images[i].valid /\ images[i].page = p
            /\ c[1] >= images[i].x /\ c[1] < images[i].x + images[i].w
            /\ c[2] >= images[i].y /\ c[2] < images[i].y + images[i].h }

\* Origins at which a w x h rectangle is free in page p
FreeSpots(images, p, w, h) ==
    { o \in (0..(MaxTextureSize - w)) \X (0..(MaxTextureSize - h)) :
        \A c \in Occupied(images, p) :
            ~(c[1] >= o[1] /\ c[1] < o[1] + w /\ c[2] >= o[2] /\ c[2] < o[2] + h) }

\* The first of a set of origins, rows first
FirstOf(spots) ==
    CHOOSE o \in spots :
        \A q \in spots : o[2] < q[2] \/ (o[2] = q[2] /\ o[1] <= q[1])

\* The first free origin, rows first
FirstFit(images, p, w, h) == FirstOf(FreeSpots(images, p, w, h))

\* A cache that never finds an image to reclaim
Stale_never(images, p, epoch) == {}

\* A cache that reclaims whatever is old, pinned images too
Stale_pinned(images, p, epoch) ==
    { i \in 1..Len(images) :
        /\ images[i].valid /\ images[i].page = p
        /\ images[i].epoch + ImageRetention < epoch }

\* Evictable images of page p whose last use is older than the retention window
Stale(images, p, epoch) ==
    { i \in 1..Len(images) :
        /\ images[i].valid /\ images[i].page = p /\ images[i].evictable
        /\ images[i].epoch + ImageRetention < epoch }

\* The n oldest of a set of images (ties by id)
Oldest(images, S, n) ==
    { i \in S : Cardinality({ j \in S : images[j].epoch < images[i].epoch
                                       \/ (images[j].epoch = images[i].epoch /\ j < i) }) < n }

Evict(images, S) ==
    [i \in 1..Len(images) |-> IF i \in S THEN DeadImage(images[i].owner) ELSE images[i]]

\* Pages that take the rectangle after reclaiming their n oldest stale images
ReclaimChoices(images, pages, epoch, w, h) ==
    { pn \in (1..pages) \X (0..Len(images)) :
        /\ pn[2] <= Cardinality(Stale(images, pn[1], epoch))
        /\ FreeSpots(Evict(images, Oldest(images, Stale(images, pn[1], epoch), pn[2])),
                     pn[1], w, h) # {} }

\* The choice reclaiming least, then of the lowest page
Best(choices) ==
    CHOOSE c \in choices :
        \A d \in choices : c[2] < d[2] \/ (c[2] = d[2] /\ c[1] <= d[1])

\* The cache with the new image at origin at of page, among the images kept
Placed(ic, epoch, req, owner, fresh, page, kept, at) ==
    [ic |-> [images |-> Append(kept,
                 [valid |-> TRUE, epoch |-> epoch, evictable |-> req.evictable,
                  alpha |-> req.has_alpha, page |-> page, x |-> at[1], y |-> at[2],
                  w |-> req.width, h |-> req.height, owner |-> owner]),
             pages |-> IF fresh THEN ic.pages + 1 ELSE ic.pages,
             events |-> ic.events
                        \o (IF fresh THEN << [kind |-> "CreateTexture", page |-> page] >>
                            ELSE << >>)
                        \o << [kind |-> "UpdateTexture", page |-> page] >>],
     id |-> Some(Len(ic.images) + 1)]

\* The new image packed into page at the first free origin
PlaceIn(ic, epoch, req, owner, fresh, page, kept) ==
    Placed(ic, epoch, req, owner, fresh, page, kept,
           FirstFit(kept, page, req.width, req.height))

\* The new image in the page of choice best, its oldest stale images reclaimed
Reclaim(ic, epoch, req, owner, best) ==
    PlaceIn(ic, epoch, req, owner, FALSE, best[1],
            Evict(ic.images, Oldest(ic.images, Stale(ic.images, best[1], epoch), best[2])))

\* A cache that gives up when no page takes the rectangle
PlaceAmong_no_new_page(ic, epoch, req, owner, choices) ==
    IF choices = {}
    THEN [ic |-> ic, id |-> None]
    ELSE Reclaim(ic, epoch, req, owner, Best(choices))

\* A page that takes the rectangle if there is one, a new page if not
PlaceAmong(ic, epoch, req, owner, choices) ==
    IF choices = {}
    THEN PlaceIn(ic, epoch, req, owner, TRUE, ic.pages + 1, ic.images)
    ELSE Reclaim(ic, epoch, req, owner, Best(choices))

\* ImageCache::allocate; owner is bookkeeping only.  Returns the cache and
\* the new id, or None when the rectangle exceeds the texture size.
allocate(ic, epoch, req, owner) ==
    IF req.width > MaxTextureSize \/ req.height > MaxTextureSize
    THEN [ic |-> ic, id |-> None]
    ELSE PlaceAmong(ic, epoch, req, owner,
                    ReclaimChoices(ic.images, ic.pages, epoch, req.width, req.height))

\* ImageCache::is_valid
is_valid(ic, id) == id \in 1..Len(ic.images) /\ ic.images[id].valid

\* The ImageLocation of a resident image
Location(img) ==
    [texture_id |-> img.page, min |-> << img.x, img.y >>,
     max |-> << img.x + img.w, img.y + img.h >>]

\* A cache that hands an image out once and then forgets it
get_once(ic, epoch, id) ==
    IF is_valid(ic, id)
    THEN [ic |-> [ic EXCEPT !.images[id] = DeadImage(@.owner)],
          loc |-> Some(Location(ic.images[id]))]
    ELSE [ic |-> ic, loc |-> None]

\* ImageCache::get: the location, and the cache with the last use refreshed
get(ic, epoch, id) ==
    IF is_valid(ic, id)
    THEN [ic |-> [ic EXCEPT !.images[id].epoch = epoch],
          loc |-> Some(Location(ic.images[id]))]
    ELSE [ic |-> ic, loc |-> None]

\* ImageCache::drain_events keeping the queue as it was
drain_events_keep(ic) == [ic |-> ic, delivered |-> ic.events]

\* ImageCache::drain_events: the cache with the queue cleared, and the events
\* handed to the visitor in order
drain_events(ic) == [ic |-> [ic EXCEPT !.events = << >>], delivered |-> ic.events]

\* A cache that releases the whole page of the image
deallocate_page(ic, id) ==
    IF is_valid(ic, id)
    THEN [ic |-> [ic EXCEPT !.images =
                     Evict(@, { j \in 1..Len(@) : @[j].valid /\ @[j].page = @[id].page })],
          res |-> Some(id)]
    ELSE [ic |-> ic, res |-> None]

\* ImageCache::deallocate
deallocate(ic, id) ==
    IF is_valid(ic, id)
    THEN [ic |-> [ic EXCEPT !.images[id] = DeadImage(@.owner)], res |-> Some(id)]
    ELSE [ic |-> ic, res |-> None]

\* ------------------------------------------------------------------ GlyphCache

\* FontEntry::default
FontEntryDefault == [epoch |-> 0, rasterized_glyphs |-> EmptyMap]

\* The stored keys equal to the borrowed key (id, Coords::Ref(coords))
FindFont(fonts, id, coords) ==
    { k \in DOMAIN fonts : k[1] = id /\ CoordsEq(k[2], CoordsRef(coords)) }

\* The entry found, or a default entry inserted under the owned key
FoundOrInsert(fonts, found, key) ==
    IF found # {}
    THEN [fonts |-> fonts, key |-> CHOOSE k \in found : TRUE]
    ELSE [fonts |-> MapPut(fonts, key, FontEntryDefault), key |-> key]

\* get_font_entry: the map with the entry present, and the entry's key
get_font_entry(fonts, id, coords) ==
    FoundOrInsert(fonts, FindFont(fonts, id, coords), << id, CoordsNew(coords) >>)

\* The size part of a RasterizedGlyphKey
QuantSize(size) == AsU16(F32Mul(size, 32))

\* A session that stamps the entry with the epoch of the next frame
SessionOn_ahead(e, epoch, font, size) ==
    [fonts |-> [e.fonts EXCEPT ![e.key].epoch = epoch + 1],
     font_entry |-> e.key, epoch |-> epoch, font |-> font,
     quant_size |-> QuantSize(size)]

\* A session that leaves the entry's epoch as it was
SessionOn_unstamped(e, epoch, font, size) ==
    [fonts |-> e.fonts,
     font_entry |-> e.key, epoch |-> epoch, font |-> font,
     quant_size |-> QuantSize(size)]

\* The session over the font entry e, the entry stamped with the epoch
SessionOn(e, epoch, font, size) ==
    [fonts |-> [e.fonts EXCEPT ![e.key].epoch = epoch],
     font_entry |-> e.key, epoch |-> epoch, font |-> font,
     quant_size |-> QuantSize(size)]

\* GlyphCache::session: the font map with the entry stamped, and the session
session(fonts, epoch, font, coords, size) ==
    SessionOn(get_font_entry(fonts, font, coords), epoch, font, size)

\* A key made of the positions themselves, not of their phases
GlyphKey_unquantized(id, x, y, quant_size) ==
    [id |-> id, subpx |-> << x, y >>, size |-> quant_size]

\* RasterizedGlyphKey of a request
GlyphKey(id, x, y, quant_size) ==
    [id |-> id, subpx |-> << quantize(x), quantize(y) >>, size |-> quant_size]

\* A lookup that never finds the cached line
CachedHit_never(entry, ic, key) == None

\* A lookup that returns the cached line without asking whether its image
\* is still resident
CachedHit_unchecked(entry, ic, key) ==
    IF key \in DOMAIN entry.rasterized_glyphs
    THEN Some(entry.rasterized_glyphs[key])
    ELSE None

\* The line cached under a key that get returns without rasterizing
CachedHit(entry, ic, key) ==
    IF key \in DOMAIN entry.rasterized_glyphs
       /\ is_valid(ic, entry.rasterized_glyphs[key].image_id)
    THEN Some(entry.rasterized_glyphs[key])
    ELSE None

\* The RasterizedGlyph of a rendered image stored under image_id
NewGlyph(img, image_id) ==
    [left |-> img.left, top |-> img.top, width |-> img.width, height |-> img.height,
     image_id |-> image_id, is_bitmap |-> img.content = "Color",
     desc |-> DescenderRegionNew(img)]

\* The AddImage request for a rendered image
GlyphRequest(img) ==
    [width |-> img.width, height |-> img.height, has_alpha |-> TRUE, evictable |-> TRUE]

\* The line inserted under key, and returned
Stored(fonts, ic, ses, key, glyph) ==
    [fonts |-> [fonts EXCEPT ![ses.font_entry].rasterized_glyphs = MapPut(@, key, glyph)],
     ic |-> ic, ret |-> Some(glyph), rendered |-> TRUE]

\* The outcome of the allocation a for the rendered image img
Allocated(fonts, ses, key, img, a) ==
    IF IsSome(a.id)
    THEN Stored(fonts, a.ic, ses, key, NewGlyph(img, Unwrap(a.id)))
    ELSE [fonts |-> fonts, ic |-> a.ic, ret |-> None, rendered |-> TRUE]

\* get caching a blank line when the rasterizer fails
Rasterized_negative(fonts, ic, ses, key, rendered) ==
    IF IsSome(rendered)
    THEN Allocated(fonts, ses, key, Unwrap(rendered),
                   allocate(ic, ses.epoch, GlyphRequest(Unwrap(rendered)),
                            GlyphOwned(ses.font_entry)))
    ELSE [fonts |-> [fonts EXCEPT ![ses.font_entry].rasterized_glyphs =
                        MapPut(@, key, [left |-> 0, top |-> 0, width |-> 0,
                                        height |-> 0, image_id |-> 0,
                                        is_bitmap |-> FALSE,
                                        desc |-> [start |-> U16Max, end |-> 0]])],
          ic |-> ic, ret |-> None, rendered |-> TRUE]

\* The outcome of the rasterizer's result
Rasterized(fonts, ic, ses, key, rendered) ==
    IF IsSome(rendered)
    THEN Allocated(fonts, ses, key, Unwrap(rendered),
                   allocate(ic, ses.epoch, GlyphRequest(Unwrap(rendered)),
                            GlyphOwned(ses.font_entry)))
    ELSE [fonts |-> fonts, ic |-> ic, ret |-> None, rendered |-> TRUE]

\* The cached line if the lookup hit, the rasterized glyph if not
HitOrRender(fonts, ic, ses, id, key, hit) ==
    IF IsSome(hit)
    THEN [fonts |-> fonts, ic |-> ic, ret |-> hit, rendered |-> FALSE]
    ELSE Rasterized(fonts, ic, ses, key,
                    Render(ses.font, id,
                           << to_f32(key.subpx[1]), to_f32(key.subpx[2]) >>))

\* get for a key already built
KeyedGet(fonts, ic, ses, id, key) ==
    HitOrRender(fonts, ic, ses, id, key, CachedHit(fonts[ses.font_entry], ic, key))

\* GlyphCacheSession::get for the session ses over (fonts, ic).  Returns the
\* caches, the returned glyph, and whether the rasterizer ran.
session_get(fonts, ic, ses, id, x, y) ==
    KeyedGet(fonts, ic, ses, id, GlyphKey(id, x, y, ses.quant_size))

\* prune keeping entries one frame longer
Expired_late(entry_epoch, e) == e >= 9 /\ entry_epoch < e - 9

\* prune with a window of four frames
Expired_early(entry_epoch, e) == e >= 4 /\ entry_epoch < e - 4

\* prune dropping the entries last used exactly eight frames ago as well
Expired_inclusive(entry_epoch, e) == e >= 8 /\ entry_epoch <= e - 8

\* The test of GlyphCache::prune on one entry
Expired(entry_epoch, epoch) == epoch >= 8 /\ entry_epoch < epoch - 8

\* The image ids of the lines of a set of font entries
GlyphImages(fonts, keys) ==
    UNION { { fonts[k].rasterized_glyphs[g].image_id :
                g \in DOMAIN fonts[k].rasterized_glyphs } : k \in keys }

RECURSIVE DeallocateAll(_, _)
DeallocateAll(ic, ids) ==
    IF ids = {} THEN ic
    ELSE LET id == CHOOSE i \in ids : \A j \in ids : i <= j
         IN DeallocateAll(deallocate(ic, id).ic, ids \ {id})

\* prune dropping the font entries without releasing their images
Pruned_leaky(fonts, ic, dropped) ==
    [fonts |-> Restrict(fonts, DOMAIN fonts \ dropped),
     ic |-> ic,
     dropped |-> dropped]

\* The caches without the dropped font entries and their images
Pruned(fonts, ic, dropped) ==
    [fonts |-> Restrict(fonts, DOMAIN fonts \ dropped),
     ic |-> DeallocateAll(ic, GlyphImages(fonts, dropped)),
     dropped |-> dropped]

\* GlyphCache::prune
prune(fonts, ic, epoch) ==
    Pruned(fonts, ic, { k \in DOMAIN fonts : Expired(fonts[k].epoch, epoch) })

\* The font entries with the lines of invalid images removed
Swept(fonts, ic) ==
    [k \in DOMAIN fonts |->
        [fonts[k] EXCEPT !.rasterized_glyphs =
            Restrict(@, { g \in DOMAIN @ : is_valid(ic, @[g].image_id) })]]

\* The font entries that still have lines
NonEmpty(swept) ==
    Restrict(swept, { k \in DOMAIN swept : DOMAIN swept[k].rasterized_glyphs # {} })

\* clear_evicted keeping the font entries it has emptied
clear_evicted_keep_empty(fonts, ic) == Swept(fonts, ic)

\* GlyphCache::clear_evicted
clear_evicted(fonts, ic) == NonEmpty(Swept(fonts, ic))

\* ------------------------------------------------------------------ BatchManager

\* BatchManager::reset leaving the primitives in place
reset_keep(batch) == batch

\* BatchManager::reset
reset(batch) == << >>

\* BatchManager::add_rect
add_rect(batch, rect, depth, color) ==
    Append(batch, [kind |-> "rect", rect |-> rect, depth |-> depth, color |-> color,
                   tex |-> 0, uv |-> << 0, 0, 0, 0 >>])

\* BatchManager::add_image_rect
add_image_rect(batch, rect, depth, color, uv, tex, has_alpha) ==
    Append(batch, [kind |-> "image", rect |-> rect, depth |-> depth, color |-> color,
                   tex |-> tex, uv |-> uv])

\* BatchManager::add_mask_rect
add_mask_rect(batch, rect, depth, color, uv, tex, has_alpha) ==
    Append(batch, [kind |-> "mask", rect |-> rect, depth |-> depth, color |-> color,
                   tex |-> tex, uv |-> uv])

RECURSIVE Group(_, _)
\* Consecutive primitives of one kind and texture form one batch
Group(prims, list) ==
    IF prims = << >> THEN list
    ELSE LET p == Head(prims)
             n == Len(list)
         IN IF n > 0 /\ list[n].kind = p.kind /\ list[n].tex = p.tex
            THEN Group(Tail(prims), [list EXCEPT ![n].prims = Append(@, p)])
            ELSE Group(Tail(prims),
                       Append(list, [kind |-> p.kind, tex |-> p.tex, prims |-> << p >>]))

\* BatchManager::build_display_list drawing the nearest depth first
build_display_list_sorted(batch) ==
    Group(SelectSeq(batch, LAMBDA p : p.depth = 1)
          \o SelectSeq(batch, LAMBDA p : p.depth # 1), << >>)

\* BatchManager::build_display_list
build_display_list(batch) == Group(batch, << >>)

\* ------------------------------------------------------------------ inputs

\* (font id, variation coordinates) of the text runs drawn
RunFonts == { << 1, << >> >>, << 1, << 3 >> >> }

FontSize == 14 * Unit

\* 10.05, 10.10 and 10.15 as f32: the first two share a sub-pixel phase
X1005 == 10 * Unit + 52429
X1010 == 10 * Unit + 104858
X1015 == 10 * Unit + 157286

GlyphY == 20 * Unit

\* Positioned glyphs a run is made of
Glyphs ==
    { [id |-> 1, x |-> X1005, y |-> GlyphY], [id |-> 1, x |-> X1010, y |-> GlyphY],
      [id |-> 1, x |-> X1015, y |-> GlyphY], [id |-> 2, x |-> X1005, y |-> GlyphY],
      [id |-> 3, x |-> X1005, y |-> GlyphY] }

\* Glyph sequences of up to n glyphs
SeqsUpTo(S, n) == UNION { [1..m -> S] : m \in 0..n }

GlyphSeqs == SeqsUpTo(Glyphs, GCMaxGlyphs)

\* The glyphs of the runs that span many frames: one glyph at two phases
FrameGlyphs ==
    { [id |-> 1, x |-> X1005, y |-> GlyphY], [id |-> 1, x |-> X1015, y |-> GlyphY] }

FrameGlyphSeqs == SeqsUpTo(FrameGlyphs, MaxGlyphs)

\* 9.05 and 12.05 as f32
X905 == 9 * Unit + 52429
X1205 == 12 * Unit + 52429

\* The glyphs of the underlined runs: the glyph with descender ink at two
\* positions, and one glyph of every other kind
UGlyphs ==
    { [id |-> 1, x |-> X905, y |-> GlyphY], [id |-> 1, x |-> X1205, y |-> GlyphY],
      [id |-> 2, x |-> X905, y |-> GlyphY], [id |-> 3, x |-> X905, y |-> GlyphY],
      [id |-> 4, x |-> X905, y |-> GlyphY], [id |-> 5, x |-> X905, y |-> GlyphY],
      [id |-> 6, x |-> X905, y |-> GlyphY] }

UGlyphSeqs == SeqsUpTo(UGlyphs, UMaxGlyphs)

\* The fonts of those runs: plain, underlined, underlined lower
UFonts == { << 1, << >> >>, << 1, << 3 >> >>, << 1, << 3, 4 >> >> }

\* The underline of an underlined run
Underline == [offset |-> -Unit, size |-> Unit \div 2, color |-> "ul"]

\* An underline two pixels under the baseline
UnderlineLow == [offset |-> -2 * Unit, size |-> Unit, color |-> "ul"]

\* The rectangle of a run, and of a drawn rectangle or image, in pixels
RunRect == [x |-> 8, y |-> 0, width |-> 6, height |-> 4]

Depth == 1

\* add_image requests: a whole evictable page, a pinned texel, one too wide
AddRequests ==
    { [width |-> MaxTextureSize, height |-> MaxTextureSize, has_alpha |-> TRUE,
       evictable |-> TRUE],
      [width |-> 1, height |-> 1, has_alpha |-> FALSE, evictable |-> FALSE],
      [width |-> MaxTextureSize + 1, height |-> 1, has_alpha |-> FALSE,
       evictable |-> TRUE] }

\* ------------------------------------------------------------------ Compositor

VARIABLES
    epoch,       \* Compositor.epoch
    fonts,       \* Compositor.glyph_cache.fonts
    ic,          \* Compositor.image_cache
    batch,       \* Compositor.batch_manager: the primitives of the frame
    intercepts,  \* Compositor.intercepts
    op,          \* the operation that ran last, with what it returned
    calls,       \* calls other than begin() made so far
    qpos,        \* position under test, for the quantization checks
    qres         \* what quantize returned for qpos and for qpos + 1.0

vars == << epoch, fonts, ic, batch, intercepts, op, calls, qpos, qres >>

NoOp == [name |-> "new", arg |-> << >>, ret |-> None, log |-> << >>, dropped |-> {},
         events |-> << >>, list |-> << >>]

\* One more call other than begin()
Call == calls' = calls + 1

\* Image ids handed to the caller by add_image
Handles == { i \in 1..Len(ic.images) : ic.images[i].owner.kind = "user" }

\* Compositor::new
Init ==
    /\ epoch = 0
    /\ fonts = EmptyMap
    /\ ic = ImageCacheNew
    /\ batch = << >>
    /\ intercepts = << >>
    /\ op = NoOp
    /\ calls = 0
    /\ qpos = 0
    /\ qres = << >>

\* begin() leaving the epoch where it was
NextEpoch_stuck(e) == e

\* The epoch begin() moves to
NextEpoch(e) == e + 1

\* The caches begin() leaves, p being what prune returned
BeginPruned(p) ==
    /\ fonts' = p.fonts
    /\ ic' = p.ic
    /\ op' = [NoOp EXCEPT !.name = "begin", !.dropped = p.dropped]

\* Compositor::begin
Begin ==
    /\ BeginPruned(prune(fonts, ic, epoch))
    /\ epoch' = NextEpoch(epoch)
    /\ batch' = reset(batch)
    /\ UNCHANGED << intercepts, calls, qpos, qres >>

\* What finish leaves, d being what drain_events returned
FinishDrained(d) ==
    /\ op' = [NoOp EXCEPT !.name = "finish", !.events = d.delivered,
                          !.list = build_display_list(batch)]
    /\ ic' = d.ic

\* Compositor::finish
Finish ==
    /\ Call
    /\ FinishDrained(drain_events(ic))
    /\ UNCHANGED << epoch, fonts, batch, intercepts, qpos, qres >>

\* The cache and the result of add_image, a being what allocate returned
AddImageAllocated(request, a) ==
    /\ ic' = a.ic
    /\ op' = [NoOp EXCEPT !.name = "add_image", !.arg = request, !.ret = a.id]

\* Compositor::add_image
AddImage(request) ==
    /\ Call
    /\ Len(ic.images) < MaxImages
    /\ AddImageAllocated(request, allocate(ic, epoch, request, UserOwned))
    /\ UNCHANGED << epoch, fonts, batch, intercepts, qpos, qres >>

\* The cache and the result of get_image, g being what get returned
GetImageGot(image, g) ==
    /\ ic' = g.ic
    /\ op' = [NoOp EXCEPT !.name = "get_image", !.arg = image, !.ret = g.loc]

\* Compositor::get_image
GetImage(image) ==
    /\ Call
    /\ GetImageGot(image, get(ic, epoch, image))
    /\ UNCHANGED << epoch, fonts, batch, intercepts, qpos, qres >>

\* The cache and the result of remove_image, d being what deallocate returned
RemoveImageDone(image, d) ==
    /\ ic' = d.ic
    /\ op' = [NoOp EXCEPT !.name = "remove_image", !.arg = image,
                          !.ret = Some(IsSome(d.res))]

\* Compositor::remove_image
RemoveImage(image) ==
    /\ Call
    /\ RemoveImageDone(image, deallocate(ic, image))
    /\ UNCHANGED << epoch, fonts, batch, intercepts, qpos, qres >>

\* Compositor::draw_rect
DrawRect ==
    /\ Call
    /\ Len(batch) < MaxBatch
    /\ batch' = add_rect(batch, RunRect, Depth, "fill")
    /\ op' = [NoOp EXCEPT !.name = "draw_rect"]
    /\ UNCHANGED << epoch, fonts, ic, intercepts, qpos, qres >>

\* The texture coordinates of an ImageLocation
UV(img) == img.min \o img.max

\* draw_image drawing an image that is not resident from the texture origin
ImageBatch_unchecked(image, loc) ==
    IF IsSome(loc)
    THEN add_image_rect(batch, RunRect, Depth, "tint", UV(Unwrap(loc)),
                        Unwrap(loc).texture_id, ic.images[image].alpha)
    ELSE add_image_rect(batch, RunRect, Depth, "tint", << 0, 0, 0, 0 >>, 0, FALSE)

\* The batch draw_image leaves for the location it was given
ImageBatch(image, loc) ==
    IF IsSome(loc)
    THEN add_image_rect(batch, RunRect, Depth, "tint", UV(Unwrap(loc)),
                        Unwrap(loc).texture_id, ic.images[image].alpha)
    ELSE batch

\* What draw_image leaves, g being what get returned
DrawImageGot(image, g) ==
    /\ ic' = g.ic
    /\ batch' = ImageBatch(image, g.loc)
    /\ op' = [NoOp EXCEPT !.name = "draw_image", !.arg = image, !.ret = g.loc]

\* Compositor::draw_image
DrawImage(image) ==
    /\ Call
    /\ Len(batch) < MaxBatch
    /\ DrawImageGot(image, get(ic, epoch, image))
    /\ UNCHANGED << epoch, fonts, intercepts, qpos, qres >>

\* What one lookup of the glyph loop did
Line(glyph, r, image_id, drawn) ==
    [id |-> glyph.id, x |-> glyph.x, rendered |-> r.rendered, ret |-> image_id,
     drawn |-> drawn]

\* The intercepts after a glyph at gx whose descender has the ink range desc_ink
Intercepted(icpts, underline, underline_offset, entry, desc_ink, gx) ==
    IF underline /\ entry.top - underline_offset < entry.height /\ IsSome(desc_ink)
    THEN Append(icpts, << Unwrap(desc_ink)[1] + gx, Unwrap(desc_ink)[2] + gx >>)
    ELSE icpts

\* Every glyph drawn as an alpha mask
GlyphBatch_mask_only(b, entry, rect, color, img) ==
    add_mask_rect(b, rect, Depth, color, UV(img), img.texture_id, TRUE)

\* The batch after the glyph's rectangle is added
GlyphBatch(b, entry, rect, color, img) ==
    IF entry.is_bitmap
    THEN add_image_rect(b, rect, Depth, "white", UV(img), img.texture_id, TRUE)
    ELSE add_mask_rect(b, rect, Depth, color, UV(img), img.texture_id, TRUE)

\* The loop state after a glyph is drawn at (gx, gy) from the location img
GlyphDrawn(acc, glyph, color, underline, underline_offset, r, entry, c, img, gx, gy) ==
    [fonts |-> r.fonts, ic |-> c,
     batch |-> GlyphBatch(acc.batch, entry,
                          [x |-> gx, y |-> gy, width |-> entry.width,
                           height |-> entry.height], color, img),
     intercepts |-> Intercepted(acc.intercepts, underline, underline_offset, entry,
                                DescRange(entry.desc), gx),
     log |-> Append(acc.log, Line(glyph, r, entry.image_id, TRUE))]

\* The glyph drawn with the bias on both axes
GlyphLocated_biased_y(acc, glyph, color, underline, underline_offset, r, entry, l) ==
    IF IsSome(l.loc)
    THEN GlyphDrawn(acc, glyph, color, underline, underline_offset, r, entry, l.ic,
                    Unwrap(l.loc),
                    Floor(F32Add(glyph.x, Unit \div 8)) \div Unit + entry.left,
                    Floor(F32Add(glyph.y, Unit \div 8)) \div Unit - entry.top)
    ELSE [fonts |-> r.fonts, ic |-> l.ic, batch |-> acc.batch,
          intercepts |-> acc.intercepts,
          log |-> Append(acc.log, Line(glyph, r, entry.image_id, FALSE))]

\* The loop state after the image of the cached glyph was looked up
GlyphLocated(acc, glyph, color, underline, underline_offset, r, entry, l) ==
    IF IsSome(l.loc)
    THEN GlyphDrawn(acc, glyph, color, underline, underline_offset, r, entry, l.ic,
                    Unwrap(l.loc),
                    Floor(F32Add(glyph.x, Unit \div 8)) \div Unit + entry.left,
                    Floor(F32Add(glyph.y, 0)) \div Unit - entry.top)
    ELSE [fonts |-> r.fonts, ic |-> l.ic, batch |-> acc.batch,
          intercepts |-> acc.intercepts,
          log |-> Append(acc.log, Line(glyph, r, entry.image_id, FALSE))]

\* The glyph located by a validity test alone, its image's last use left as
\* it was
GlyphGot_unrefreshed(acc, ses, glyph, color, underline, underline_offset, r) ==
    IF IsSome(r.ret)
    THEN GlyphLocated(acc, glyph, color, underline, underline_offset, r, Unwrap(r.ret),
                      [ic |-> r.ic,
                       loc |-> get(r.ic, ses.epoch, Unwrap(r.ret).image_id).loc])
    ELSE [fonts |-> r.fonts, ic |-> r.ic, batch |-> acc.batch,
          intercepts |-> acc.intercepts,
          log |-> Append(acc.log, Line(glyph, r, 0, FALSE))]

\* The loop state after the glyph was looked up in the glyph cache
GlyphGot(acc, ses, glyph, color, underline, underline_offset, r) ==
    IF IsSome(r.ret)
    THEN GlyphLocated(acc, glyph, color, underline, underline_offset, r, Unwrap(r.ret),
                      get(r.ic, ses.epoch, Unwrap(r.ret).image_id))
    ELSE [fonts |-> r.fonts, ic |-> r.ic, batch |-> acc.batch,
          intercepts |-> acc.intercepts,
          log |-> Append(acc.log, Line(glyph, r, 0, FALSE))]

\* One iteration of the glyph loop of draw_glyphs.  acc holds the caches, the
\* batch, the intercepts and the log of what each lookup did.
GlyphStep(acc, ses, glyph, color, underline, underline_offset) ==
    GlyphGot(acc, ses, glyph, color, underline, underline_offset,
             session_get(acc.fonts, acc.ic, ses, glyph.id, glyph.x, glyph.y))

RECURSIVE GlyphLoop(_, _, _, _, _, _)
GlyphLoop(acc, ses, glyphs, color, underline, underline_offset) ==
    IF glyphs = << >> THEN acc
    ELSE GlyphLoop(GlyphStep(acc, ses, Head(glyphs), color, underline, underline_offset),
                   ses, Tail(glyphs), color, underline, underline_offset)

\* The batch after the underline rectangle that ends at an intercept
UnderlineBefore(b, range, ux, uy, size, color) ==
    IF ux < range[1]
    THEN add_rect(b, [x |-> ux, y |-> uy, width |-> range[1] - ux, height |-> size],
                  Depth, color)
    ELSE b

RECURSIVE UnderlineLoop(_, _, _, _, _, _)
\* The loop over the intercepts: the rectangles before each, and the last ux
UnderlineLoop(b, ranges, ux, uy, size, color) ==
    IF ranges = << >> THEN [batch |-> b, ux |-> ux]
    ELSE UnderlineLoop(UnderlineBefore(b, Head(ranges), ux, uy, size, color),
                       Tail(ranges), Head(ranges)[2], uy, size, color)

\* The underline stopping at the last intercept
UnderlineEnd_missing(ul, end, uy, size, color) == ul.batch

\* The batch after the underline rectangle that ends at the end of the run
UnderlineEnd(ul, end, uy, size, color) ==
    IF ul.ux < end
    THEN add_rect(ul.batch, [x |-> ul.ux, y |-> uy, width |-> end - ul.ux,
                             height |-> size], Depth, color)
    ELSE ul.batch

\* The intercepts left as the glyphs pushed them
Grown_same(icpts) == icpts

\* The intercepts, each widened by a pixel on both sides
Grown(icpts) == [i \in 1..Len(icpts) |-> << icpts[i][1] - 1, icpts[i][2] + 1 >>]

\* The underline drawn around the widened intercepts
Underlined(acc, grown, rect, uy, size, color) ==
    [fonts |-> acc.fonts, ic |-> acc.ic, intercepts |-> grown, log |-> acc.log,
     batch |-> UnderlineEnd(UnderlineLoop(acc.batch, grown, rect.x, uy, size, color),
                            rect.x + rect.width, uy, size, color)]

\* underline_offset of a style
UnderlineOffset(style) ==
    IF IsSome(style.underline) THEN AsI32(RoundF(Unwrap(style.underline).offset)) ELSE 0

\* The underline drawn with the rounded size as it is, zero included
AfterLoop_unclamped(acc, rect, style, underline_offset) ==
    IF IsSome(style.underline)
    THEN Underlined(acc, Grown(acc.intercepts), rect, style.baseline - underline_offset,
                    RoundF(Unwrap(style.underline).size) \div Unit,
                    Unwrap(style.underline).color)
    ELSE [fonts |-> acc.fonts, ic |-> acc.ic, intercepts |-> acc.intercepts,
          log |-> acc.log, batch |-> acc.batch]

\* draw_glyphs after its glyph loop
AfterLoop(acc, rect, style, underline_offset) ==
    IF IsSome(style.underline)
    THEN Underlined(acc, Grown(acc.intercepts), rect, style.baseline - underline_offset,
                    Max(RoundF(Unwrap(style.underline).size), Unit) \div Unit,
                    Unwrap(style.underline).color)
    ELSE [fonts |-> acc.fonts, ic |-> acc.ic, intercepts |-> acc.intercepts,
          log |-> acc.log, batch |-> acc.batch]

\* The glyph loop of draw_glyphs in the session ses
RunLoop(c, b, icpts, ses, style, glyphs, underline_offset) ==
    GlyphLoop([fonts |-> ses.fonts, ic |-> c, batch |-> b,
               intercepts |-> IF IsSome(style.underline) THEN << >> ELSE icpts,
               log |-> << >>],
              ses, glyphs, style.color, IsSome(style.underline), underline_offset)

\* draw_glyphs for the underline offset of its style
DrawRun(f, c, b, icpts, ep, rect, style, glyphs, underline_offset) ==
    AfterLoop(RunLoop(c, b, icpts,
                      session(f, ep, style.font, style.font_coords, style.font_size),
                      style, glyphs, underline_offset),
              rect, style, underline_offset)

\* Compositor::draw_glyphs on the state (fonts, ic, batch, intercepts)
draw_glyphs(f, c, b, icpts, ep, rect, style, glyphs) ==
    DrawRun(f, c, b, icpts, ep, rect, style, glyphs, UnderlineOffset(style))

\* The underline of a run: runs of the plain font have none, runs of a font
\* instance with one variation coordinate have the underline one pixel under
\* the baseline, runs of an instance with two have the lower one, with three
\* a hairline (offset -1.5, size 0.25) and with more a thick line close to
\* the baseline (offset -0.4, size 2.5)
UnderlineOf(coords) ==
    IF coords = << >> THEN None
    ELSE IF Len(coords) = 1 THEN Some(Underline)
    ELSE IF Len(coords) = 2 THEN Some(UnderlineLow)
    ELSE IF Len(coords) = 3
    THEN Some([offset |-> 0 - (3 * Unit) \div 2, size |-> Unit \div 4, color |-> "hair"])
    ELSE Some([offset |-> 0 - (2 * Unit) \div 5, size |-> (5 * Unit) \div 2,
               color |-> "thick"])

\* The TextRunStyle of a run
Style(font) ==
    [font |-> font[1], font_coords |-> font[2], font_size |-> FontSize, color |-> "fg",
     baseline |-> 20, advance |-> 6, underline |-> UnderlineOf(font[2])]

\* What draw_glyphs leaves, d being the state it computed
DrawGlyphsDone(font, glyphs, d) ==
    /\ Len(d.ic.images) <= MaxImages
    /\ fonts' = d.fonts
    /\ ic' = d.ic
    /\ batch' = d.batch
    /\ intercepts' = d.intercepts
    /\ op' = [NoOp EXCEPT !.name = "draw_glyphs", !.log = d.log,
                          !.arg = [font |-> font, glyphs |-> glyphs,
                                   first |-> Len(batch)]]

\* Compositor::draw_glyphs
DrawGlyphs(font, glyphs) ==
    /\ Call
    /\ Len(batch) < MaxBatch
    /\ DrawGlyphsDone(font, glyphs,
                      draw_glyphs(fonts, ic, batch, intercepts, epoch, RunRect,
                                  Style(font), glyphs))
    /\ UNCHANGED << epoch, qpos, qres >>

\* GlyphCache::clear_evicted, called by an owner of both caches
ClearEvicted ==
    /\ Call
    /\ fonts' = clear_evicted(fonts, ic)
    /\ op' = [NoOp EXCEPT !.name = "clear_evicted",
                          !.dropped = DOMAIN fonts \ DOMAIN fonts',
                          !.ret = Some(Cardinality(
                                    { i \in GlyphImages(fonts, DOMAIN fonts) :
                                        ~is_valid(ic, i) }))]
    /\ UNCHANGED << epoch, ic, batch, intercepts, qpos, qres >>

Next ==
    \/ epoch < MaxEpoch /\ Begin
    \/ calls < MaxCalls /\ Finish
    \/ calls < MaxCalls /\ \E request \in AddRequests : AddImage(request)
    \/ calls < MaxCalls /\ \E image \in Handles : GetImage(image)
    \/ calls < MaxCalls /\ \E image \in Handles : RemoveImage(image)
    \/ calls < MaxCalls /\ DrawRect
    \/ calls < MaxCalls /\ \E image \in Handles : DrawImage(image)
    \/ calls < MaxCalls /\ \E font \in RunFonts, glyphs \in FrameGlyphSeqs : DrawGlyphs(font, glyphs)

Spec == Init /\ [][Next]_vars

\* The caches driven directly, clear_evicted included, over a few frames:
\* whoever holds a RasterizedGlyph may pass its image_id to deallocate.
NextGC ==
    \/ epoch < GCMaxEpoch /\ Begin
    \/ calls < GCMaxCalls /\ \E image \in 1..Len(ic.images) : RemoveImage(image)
    \/ calls < GCMaxCalls /\ \E font \in RunFonts, glyphs \in GlyphSeqs : DrawGlyphs(font, glyphs)
    \/ calls < GCMaxCalls /\ ClearEvicted

SpecGC == Init /\ [][NextGC]_vars

\* Underlined and plain runs of glyphs of every kind, drawn over two frames
NextU ==
    \/ epoch < UMaxEpoch /\ Begin
    \/ calls < UMaxCalls /\ \E font \in UFonts, glyphs \in UGlyphSeqs : DrawGlyphs(font, glyphs)

SpecU == Init /\ [][NextU]_vars

\* Depths and textures of the primitives handed to the batch manager directly
BMaxBatch == 4
BMaxCalls == 1
BatchDepths == { 1, 2 }
BatchTextures == { 1, 2 }

\* BatchManager::add_rect called by an owner of the batch manager
SubmitRect(depth) ==
    /\ Len(batch) < BMaxBatch
    /\ batch' = add_rect(batch, RunRect, depth, "fill")
    /\ op' = [NoOp EXCEPT !.name = "add_rect"]
    /\ UNCHANGED << epoch, fonts, ic, intercepts, calls, qpos, qres >>

\* BatchManager::add_image_rect called by an owner of the batch manager
SubmitImage(tex, depth) ==
    /\ Len(batch) < BMaxBatch
    /\ batch' = add_image_rect(batch, RunRect, depth, "tint", << 0, 0, 1, 1 >>, tex, FALSE)
    /\ op' = [NoOp EXCEPT !.name = "add_image_rect"]
    /\ UNCHANGED << epoch, fonts, ic, intercepts, calls, qpos, qres >>

\* BatchManager::add_mask_rect called by an owner of the batch manager
SubmitMask(tex, depth) ==
    /\ Len(batch) < BMaxBatch
    /\ batch' = add_mask_rect(batch, RunRect, depth, "text", << 0, 0, 1, 1 >>, tex, TRUE)
    /\ op' = [NoOp EXCEPT !.name = "add_mask_rect"]
    /\ UNCHANGED << epoch, fonts, ic, intercepts, calls, qpos, qres >>

\* Primitives of every kind, texture and depth in every order, then finish
NextB ==
    \/ \E depth \in BatchDepths : SubmitRect(depth)
    \/ \E tex \in BatchTextures, depth \in BatchDepths : SubmitImage(tex, depth)
    \/ \E tex \in BatchTextures, depth \in BatchDepths : SubmitMask(tex, depth)
    \/ calls < BMaxCalls /\ Finish

SpecB == Init /\ [][NextB]_vars

\* Glyph images of every ink pattern up to DMaxWidth x DMaxHeight pixels, with
\* the top from DMaxTop above the first row to DMaxTop below it
DMaxWidth == 3
DMaxHeight == 2
DMaxTop == 2

\* The bytes of an image whose pixel k (row-major, from 1) holds ink iff
\* ink[k]: an alpha byte, or four channels of which one is set
PixelData(content, ink) ==
    IF content = "Mask" THEN [k \in 1..Len(ink) |-> IF ink[k] THEN 255 ELSE 0]
    ELSE [b \in 1..(4 * Len(ink)) |->
            IF ink[(b - 1) \div 4 + 1] /\ (b - 1) % 4 = ((b - 1) \div 4) % 4
            THEN 255 ELSE 0]

GlyphImagesOf(w, h) ==
    { [left |-> 0, top |-> top, width |-> w, height |-> h, content |-> content,
       data |-> PixelData(content, ink)] :
         top \in (0 - DMaxTop)..DMaxTop, content \in {"Mask", "Color"},
         ink \in [1..(w * h) -> BOOLEAN] }

\* DescenderRegion::new applied to a glyph image
Scan(image) ==
    /\ op.name = "new"
    /\ op' = [NoOp EXCEPT !.name = "descender", !.arg = image,
                          !.ret = Some(DescenderRegionNew(image))]
    /\ UNCHANGED << epoch, fonts, ic, batch, intercepts, calls, qpos, qres >>

NextD == \E w \in 1..DMaxWidth, h \in 1..DMaxHeight : \E image \in GlyphImagesOf(w, h) : Scan(image)

SpecD == Init /\ [][NextD]_vars

\* Glyphs at positions on either side of the bias: 9.05 and 9.9 (the bias
\* carries 9.9 into the next pixel), about -0.05 (carried to pixel 0), on the
\* lines y = 20.0 and y = 20.9
PMaxCalls == 1
PMaxGlyphs == 2
X990 == 9 * Unit + 943718
XNeg005 == 0 - 52429
Y2090 == 20 * Unit + 943718

PGlyphs ==
    { [id |-> id, x |-> x, y |-> y] :
        id \in {1, 2}, x \in {X905, X990, XNeg005}, y \in {GlyphY, Y2090} }

PGlyphSeqs == SeqsUpTo(PGlyphs, PMaxGlyphs)

\* Runs of those glyphs
NextP ==
    calls < PMaxCalls /\ \E font \in RunFonts, glyphs \in PGlyphSeqs : DrawGlyphs(font, glyphs)

SpecP == Init /\ [][NextP]_vars

\* Runs in every underline style, and without one, over glyphs of every kind;
\* the glyph with descender ink also at about 5.05 (left of the run), 8.05
\* (its first pixel) and 16.05 (right of the run)
LMaxCalls == 1
LMaxGlyphs == 2

LGlyphs ==
    UGlyphs \cup { [id |-> 1, x |-> k * Unit + 52430, y |-> GlyphY] : k \in {5, 8, 16} }

NextL ==
    /\ calls < LMaxCalls
    /\ \E n \in 0..4, glyphs \in SeqsUpTo(LGlyphs, LMaxGlyphs) :
          DrawGlyphs(<< 1, [i \in 1..n |-> i + 2] >>, glyphs)

SpecL == Init /\ [][NextL]_vars

\* n zero coordinates
Zeros(n) == [i \in 1..n |-> 0]

\* Coordinate slices of length 0, of lengths up to 8 and of greater length,
\* among them slices that differ only in trailing zeros
CoordSlices ==
    { << >>, << 0 >>, << 3 >>, << 3, 0 >>, << 0, 3 >>, << 3, 4 >>,
      Zeros(8), << 3 >> \o Zeros(7), Zeros(7) \o << 3 >>,
      Zeros(9), << 3 >> \o Zeros(8), Zeros(8) \o << 3 >>, Zeros(10) }

\* font.key.value() of the fonts sessions are opened for
FontIds == { 1, 2 }

\* What opening a session leaves, ses being what session returned; the
\* requests made so far are kept in the log
SessionOpened(font, coords, ses) ==
    /\ fonts' = ses.fonts
    /\ op' = [NoOp EXCEPT !.name = "session",
                          !.arg = [font |-> font, coords |-> coords],
                          !.ret = Some(ses.font_entry),
                          !.log = Append(op.log, << font, coords >>)]

\* GlyphCache::session called by an owner of both caches
OpenSession(font, coords) ==
    /\ Call
    /\ SessionOpened(font, coords, session(fonts, epoch, font, coords, FontSize))
    /\ UNCHANGED << epoch, ic, batch, intercepts, qpos, qres >>

\* Sessions opened one after another for fonts and coordinate slices
NextC == calls < CMaxCalls /\ \E font \in FontIds, coords \in CoordSlices : OpenSession(font, coords)

SpecC == Init /\ [][NextC]_vars

\* Positions the quantization is tried on: sixteenths of a pixel within two
\* pixels of zero and between 15 and 17, each with its two neighbours
QuantInputs ==
    { F32Round(k * (Unit \div 16) + d) : k \in -32..32, d \in {-1, 0, 1} }
    \cup { F32Round(15 * Unit + k * (Unit \div 16) + d) : k \in 0..32, d \in {-1, 0, 1} }

InitQ ==
    /\ epoch = 0
    /\ fonts = EmptyMap
    /\ ic = ImageCacheNew
    /\ batch = << >>
    /\ intercepts = << >>
    /\ op = NoOp
    /\ calls = 0
    /\ qpos \in QuantInputs
    /\ qres = << >>

\* quantize applied to a position and to the position one pixel further
Quantize ==
    /\ qres = << >>
    /\ qres' = << quantize(qpos), quantize(F32Add(qpos, Unit)) >>
    /\ UNCHANGED << epoch, fonts, ic, batch, intercepts, op, calls, qpos >>

NextQ == Quantize

SpecQ == InitQ /\ [][NextQ]_vars

\* The positions the snapping of draw_glyphs is tried on, each a multiple v of
\* 1/per pixel: the positions of QuantInputs on the 2^-20 grid and, on the
\* grid of eighths, the f32 values of two pixels below 2^20 and 2^21 pixels
\* and of four pixels from 2^21 on, with their negations. An f32 of
\* magnitude 2^20 pixels or more is a multiple of an eighth, and F32Round
\* rounds the multiples of any power-of-two grid alike.
InitS ==
    /\ epoch = 0
    /\ fonts = EmptyMap
    /\ ic = ImageCacheNew
    /\ batch = << >>
    /\ intercepts = << >>
    /\ op = NoOp
    /\ calls = 0
    /\ qpos \in { [per |-> Unit, v |-> v] : v \in QuantInputs }
                \cup { [per |-> 8, v |-> s * F32Round(8 * b + k)] :
                         s \in {-1, 1}, b \in {2^20 - 2, 2^21 - 2, 2^21}, k \in 0..31 }
    /\ qres = << >>

\* SubpixelOffset::quantize of a position on the grid of 1/per pixel
quantizeOn(pos, per) ==
    IF per = Unit THEN quantize(pos)
    ELSE Phase(F32Mul(F32Sub(pos, (pos \div per) * per), 8) \div per)

\* The snapping without the horizontal bias
Snap_unbiased ==
    /\ qres = << >>
    /\ qres' = << (qpos.v \div qpos.per) * qpos.per,
                  (F32Add(qpos.v, 0) \div qpos.per) * qpos.per,
                  quantizeOn(qpos.v, qpos.per) >>
    /\ UNCHANGED << epoch, fonts, ic, batch, intercepts, op, calls, qpos >>

\* The snapping of one glyph coordinate in draw_glyphs: the pixel origin with
\* the horizontal bias 0.125, the pixel origin with the vertical bias 0, and
\* the phase the glyph image is rendered at
Snap ==
    /\ qres = << >>
    /\ qres' = << (F32Add(qpos.v, qpos.per \div 8) \div qpos.per) * qpos.per,
                  (F32Add(qpos.v, 0) \div qpos.per) * qpos.per,
                  quantizeOn(qpos.v, qpos.per) >>
    /\ UNCHANGED << epoch, fonts, ic, batch, intercepts, op, calls, qpos >>

SpecS == InitS /\ [][Snap]_vars

\* ------------------------------------------------------------------ claims

\* C1: the epoch never decreases; begin() raises it by exactly one and no
\* other operation (finish, add_image, get_image, remove_image, draw_rect,
\* draw_image, draw_glyphs) changes it.
C1_EpochAdvancesOnlyInBegin ==
    [][IF op'.name = "begin" THEN epoch' = epoch + 1 ELSE epoch' = epoch]_vars

\* A frame was begun twice and something was drawn in the second frame.
C1_Witness == epoch = 2 /\ op.name = "draw_glyphs" /\ Len(batch) > 0

\* C2: in every state between Compositor operations every cached glyph
\* references an image that is valid in the image cache.
C2_GlyphImagesValid ==
    \A k \in DOMAIN fonts : \A g \in DOMAIN fonts[k].rasterized_glyphs :
        is_valid(ic, fonts[k].rasterized_glyphs[g].image_id)

\* The session draw_glyphs opens for a run of a font in the current state
SessionOf(font) == session(fonts, epoch, font[1], font[2], FontSize)

\* The line cached for a glyph request in a session's font entry, if any
LineOf(ses, glyph) ==
    LET lines == ses.fonts[ses.font_entry].rasterized_glyphs
        key == [id |-> glyph.id, subpx |-> << quantize(glyph.x), quantize(glyph.y) >>,
                size |-> ses.quant_size]
    IN IF key \in DOMAIN lines THEN Some(lines[key]) ELSE None

\* C3: a lookup whose key is in the font's glyph map with a backing image
\* that is still valid returns exactly the cached glyph, without rasterizing,
\* without allocating and without changing the glyph map.
C3_HitReturnsCachedGlyph ==
    \A font \in RunFonts, glyph \in Glyphs :
        LET ses == SessionOf(font)
            line == LineOf(ses, glyph)
            r == session_get(ses.fonts, ic, ses, glyph.id, glyph.x, glyph.y)
        IN (IsSome(line) /\ is_valid(ic, Unwrap(line).image_id))
           => /\ r.ret = line
              /\ ~r.rendered
              /\ r.ic = ic
              /\ r.fonts = ses.fonts

\* A draw_glyphs call whose second lookup was served from the cache.
C3_Witness ==
    /\ op.name = "draw_glyphs" /\ Len(op.log) = 2
    /\ op.log[2].ret # 0 /\ ~op.log[2].rendered /\ op.log[2].drawn

Near(a, b) == Abs(a - b) < Unit \div 4

\* The two lookups of the last draw_glyphs call asked for one glyph
SameGlyphTwice ==
    /\ op.name = "draw_glyphs" /\ Len(op.log) = 2
    /\ op.log[1].id = op.log[2].id /\ op.log[1].ret # 0

\* C4 as stated: the same glyph requested twice at positions less than the
\* quantization granularity (a quarter pixel) apart is rasterized once and
\* served from the cache the second time, for every such pair of positions.
C4_NearPositionsHit ==
    (SameGlyphTwice /\ Near(op.log[1].x, op.log[2].x))
    => (~op.log[2].rendered /\ op.log[2].ret = op.log[1].ret)

\* C4, amended: the same glyph requested twice at positions whose x and y
\* quantize to the same sub-pixel phases is rasterized once and served from
\* the cache the second time, in the calls made and in any pair of lookups
\* a session could make next.
C4_SamePhaseHits ==
    /\ (SameGlyphTwice /\ quantize(op.log[1].x) = quantize(op.log[2].x))
       => (~op.log[2].rendered /\ op.log[2].ret = op.log[1].ret)
    /\ \A font \in RunFonts, g1 \in Glyphs, g2 \in Glyphs :
        LET ses == SessionOf(font)
            r1 == session_get(ses.fonts, ic, ses, g1.id, g1.x, g1.y)
            r2 == session_get(r1.fonts, r1.ic, ses, g2.id, g2.x, g2.y)
        IN (/\ g1.id = g2.id
            /\ quantize(g1.x) = quantize(g2.x) /\ quantize(g1.y) = quantize(g2.y)
            /\ IsSome(r1.ret))
           => (~r2.rendered /\ r2.ret = r1.ret /\ r2.ic = r1.ic /\ r2.fonts = r1.fonts)

\* One run asked for a glyph at two different positions of one phase: the
\* first lookup rasterized it, the second was served the same image.
C4_Witness ==
    /\ op.name = "draw_glyphs" /\ Len(op.log) = 2
    /\ op.log[1].id = op.log[2].id /\ op.log[1].x # op.log[2].x
    /\ op.log[1].rendered /\ ~op.log[2].rendered
    /\ op.log[1].ret # 0 /\ op.log[2].ret = op.log[1].ret

\* The eighth of a pixel the exact fraction of a position falls in
Eighth(p) == (8 * (p % Unit)) \div Unit

\* C5: quantize depends only on a = floor(frac(p) * 8): 1 and 2 give Quarter,
\* 3 and 4 Half, 5 and 6 ThreeQuarters, 0 and 7 Zero, so the fractions 0.125,
\* 0.375, 0.625 and 0.875 give Quarter, Half, ThreeQuarters and Zero.
C5_QuantizeIntervals ==
    qres # << >> =>
        qres[1] = CASE Eighth(qpos) \in {1, 2} -> "Quarter"
                    [] Eighth(qpos) \in {3, 4} -> "Half"
                    [] Eighth(qpos) \in {5, 6} -> "ThreeQuarters"
                    [] OTHER -> "Zero"

\* quantize ran on a negative position whose fraction is exactly 0.875.
C5_Witness ==
    /\ qres # << >> /\ qpos < 0 /\ qpos % Unit = 7 * (Unit \div 8)
    /\ qres[1] = "Zero"

\* C6 as stated: quantize(p) = quantize(p + 1.0) for every position p.
C6_Periodic == qres # << >> => qres[1] = qres[2]

\* C6, amended: quantize(p) = quantize(p + 1.0) for every position p,
\* negative ones included, for which the f32 sum p + 1.0 is exact.
C6_PeriodicWhereExact ==
    (qres # << >> /\ F32Add(qpos, Unit) = qpos + Unit) => qres[1] = qres[2]

\* quantize ran on a negative position off the pixel grid and on the
\* position one pixel to its right, with the same phase other than Zero.
C6_Witness ==
    /\ qres # << >> /\ qpos < 0 /\ qpos + Unit > 0
    /\ qres[1] = qres[2] /\ qres[1] = "ThreeQuarters"

\* The images of the lines of one font entry
EntryImages(f, k) == GlyphImages(f, {k})

\* C7 as stated: once begin() has taken the epoch past e + 8, where e is the
\* epoch a font was last used at, the font entry no longer exists.
C7_GoneAfterEight ==
    \A k \in DOMAIN fonts : ~(op.name = "begin" /\ epoch > fonts[k].epoch + 8)

\* C7, amended: once begin() has taken the epoch past e + 9, where e is the
\* epoch a font was last used at, the font entry no longer exists and every
\* image that backed one of its glyphs is invalid.
C7_GoneAfterNine ==
    /\ \A k \in DOMAIN fonts : epoch <= fonts[k].epoch + 9
    /\ \A i \in 1..Len(ic.images) :
          (ic.images[i].owner.kind = "glyph" /\ ic.images[i].valid)
          => ic.images[i].owner.font \in DOMAIN fonts

\* begin() dropped a font entry and released the image of its glyph.
C7_Witness ==
    /\ op.name = "begin" /\ op.dropped # {}
    /\ \E i \in 1..Len(ic.images) :
          /\ ic.images[i].owner.kind = "glyph" /\ ~ic.images[i].valid
          /\ ic.images[i].owner.font \in op.dropped

\* C8: begin() drops no font entry, and deallocates none of its images, when
\* the font was used in one of the last 8 frames; and no begin() run while
\* the epoch is below 8 drops any font entry.
C8_RecentFontsSurvive ==
    [][op'.name = "begin" =>
        /\ \A k \in DOMAIN fonts :
              fonts[k].epoch + 7 >= epoch
              => /\ k \in DOMAIN fonts' /\ fonts'[k] = fonts[k]
                 /\ \A i \in EntryImages(fonts, k) : is_valid(ic', i) = is_valid(ic, i)
        /\ epoch < 8 => DOMAIN fonts' = DOMAIN fonts]_vars

\* A font entry with a resident glyph survived the begin() of frame 10.
C8_Witness ==
    /\ op.name = "begin" /\ epoch = 10
    /\ \E k \in DOMAIN fonts : \E i \in EntryImages(fonts, k) : is_valid(ic, i)

\* C9: prune(epoch) drops exactly the font entries whose last use is more
\* than 8 frames before epoch, deallocates the image of each of their
\* glyphs, and leaves the other entries and all other images as they were.
C9_PruneExact ==
    [][op'.name = "begin" =>
        LET old == { k \in DOMAIN fonts : fonts[k].epoch + 8 < epoch }
            freed == GlyphImages(fonts, old)
        IN /\ DOMAIN fonts' = DOMAIN fonts \ old
           /\ \A k \in DOMAIN fonts' : fonts'[k] = fonts[k]
           /\ Len(ic'.images) = Len(ic.images)
           /\ \A i \in 1..Len(ic.images) :
                 IF i \in freed THEN ~is_valid(ic', i)
                 ELSE ic'.images[i] = ic.images[i]]_vars

\* begin() dropped one font entry with a glyph and kept another.
C9_Witness ==
    /\ op.name = "begin" /\ op.dropped # {} /\ DOMAIN fonts # {}
    /\ \E i \in 1..Len(ic.images) :
          ic.images[i].owner.kind = "glyph" /\ ic.images[i].owner.font \in op.dropped

\* C10: after clear_evicted every remaining line references a valid image,
\* no font entry is empty, every line whose image was valid is still there
\* unchanged, the epochs of the entries are unchanged and the image cache is
\* untouched.
C10_ClearEvicted ==
    [][op'.name = "clear_evicted" =>
        /\ \A k \in DOMAIN fonts' :
              /\ DOMAIN fonts'[k].rasterized_glyphs # {}
              /\ \A g \in DOMAIN fonts'[k].rasterized_glyphs :
                    is_valid(ic', fonts'[k].rasterized_glyphs[g].image_id)
              /\ k \in DOMAIN fonts /\ fonts'[k].epoch = fonts[k].epoch
        /\ \A k \in DOMAIN fonts : \A g \in DOMAIN fonts[k].rasterized_glyphs :
              is_valid(ic, fonts[k].rasterized_glyphs[g].image_id)
              => /\ k \in DOMAIN fonts'
                 /\ g \in DOMAIN fonts'[k].rasterized_glyphs
                 /\ fonts'[k].rasterized_glyphs[g] = fonts[k].rasterized_glyphs[g]
        /\ ic' = ic]_vars

\* clear_evicted removed a line whose image was gone, dropped the entry that
\* was left empty, and kept an entry with a valid line.
C10_Witness ==
    /\ op.name = "clear_evicted" /\ Unwrap(op.ret) >= 1
    /\ op.dropped # {} /\ DOMAIN fonts # {}

\* The last operation was a draw_glyphs call
DrewGlyphs == op.name = "draw_glyphs"

\* The primitives the last draw_glyphs call added to the batch
Added == SubSeq(batch, op.arg.first + 1, Len(batch))

\* C11: a lookup that misses and then fails, because the rasterizer yields no
\* image or the image cache cannot allocate it, returns None and leaves the
\* font's glyph map as it was; the same request made again rasterizes again.
\* A run with such glyphs still processes every glyph it was given.
C11_FailureNotCached ==
    /\ DrewGlyphs =>
         /\ Len(op.log) = Len(op.arg.glyphs)
         /\ \A i \in 1..Len(op.log) :
              op.log[i].ret = 0 =>
                /\ op.log[i].rendered
                /\ LineOf(SessionOf(op.arg.font), op.arg.glyphs[i]) = None
    /\ \A font \in UFonts, glyph \in UGlyphs :
         LET ses == SessionOf(font)
             r == session_get(ses.fonts, ic, ses, glyph.id, glyph.x, glyph.y)
             again == session_get(r.fonts, r.ic, ses, glyph.id, glyph.x, glyph.y)
         IN (r.rendered /\ ~IsSome(r.ret))
            => /\ r.fonts = ses.fonts
               /\ again.rendered /\ ~IsSome(again.ret)

\* A run asked twice for the glyph that is too wide for a texture, after a
\* glyph without outline: every lookup rasterized, none returned a glyph.
C11_Witness ==
    /\ DrewGlyphs /\ epoch = 1 /\ Len(op.log) = 2
    /\ op.log[1].id = 4 /\ op.log[2].id = 4
    /\ op.log[1].rendered /\ op.log[2].rendered
    /\ op.log[1].ret = 0 /\ op.log[2].ret = 0

\* The image primitive of an image at its place in the atlas
ImagePrimitive(img) ==
    [kind |-> "image", rect |-> RunRect, depth |-> Depth, color |-> "tint",
     tex |-> img.page, uv |-> << img.x, img.y, img.x + img.w, img.y + img.h >>]

\* C12: draw_image appends exactly one image primitive, at the image's atlas
\* location, when the image is resident; when it is not (removed or evicted)
\* the batch is left as it was and the call returns normally.
C12_DrawImage ==
    [][op'.name = "draw_image" =>
         IF is_valid(ic, op'.arg)
         THEN batch' = Append(batch, ImagePrimitive(ic.images[op'.arg]))
         ELSE batch' = batch]_vars

\* draw_image was given the handle of an image that had been evicted to make
\* room for another, and drew nothing.
C12_Witness ==
    /\ op.name = "draw_image" /\ op.ret = None /\ batch = << >>
    /\ ~is_valid(ic, op.arg) /\ Cardinality(Handles) = 2 /\ ic.pages = 1

\* The last operation was a draw_glyphs call of an underlined run
DrewUnderlined == DrewGlyphs /\ IsSome(UnderlineOf(op.arg.font[2]))

\* The underline rectangles of the last run, in the order they were added
UnderlineRects == SelectSeq(Added, LAMBDA p : p.kind = "rect" /\ p.color = "ul")

\* A rectangle primitive and an intercept share a pixel column
Overlaps(p, range) == p.rect.x < range[2] /\ range[1] < p.rect.x + p.rect.width

\* C13: after a draw_glyphs call with an underline, no underline rectangle
\* overlaps an intercept expanded by one pixel on each side, whatever the
\* number of intercepts and the order in which the glyphs produced them.
C13_UnderlineAvoidsIntercepts ==
    DrewUnderlined =>
        \A i \in 1..Len(UnderlineRects), j \in 1..Len(intercepts) :
            ~Overlaps(UnderlineRects[i], intercepts[j])

\* The pixel columns of the run
RunColumns == RunRect.x .. (RunRect.x + RunRect.width - 1)

\* Column x lies in an expanded intercept
InIntercept(x) == \E j \in 1..Len(intercepts) : intercepts[j][1] <= x /\ x < intercepts[j][2]

\* Column x lies under an underline rectangle
Underlined_at(x) ==
    \E i \in 1..Len(UnderlineRects) :
        UnderlineRects[i].rect.x <= x
        /\ x < UnderlineRects[i].rect.x + UnderlineRects[i].rect.width

\* C14: after a draw_glyphs call with an underline every column of the run
\* that lies in no expanded intercept is under an underline rectangle, and
\* a run without intercepts gets exactly one rectangle spanning the run.
C14_UnderlineCoversGaps ==
    DrewUnderlined =>
        /\ \A x \in RunColumns : ~InIntercept(x) => Underlined_at(x)
        /\ intercepts = << >> =>
             /\ Len(UnderlineRects) = 1
             /\ UnderlineRects[1].rect.x = RunRect.x
             /\ UnderlineRects[1].rect.width = RunRect.width

\* An underlined run with one intercept strictly inside it: the underline is
\* drawn in two pieces, before and after the intercept.
C14_Witness ==
    /\ DrewUnderlined /\ Len(intercepts) = 1 /\ Len(UnderlineRects) = 2
    /\ RunRect.x < intercepts[1][1] /\ intercepts[1][2] < RunRect.x + RunRect.width

\* The draw position gx of the i-th glyph of the last run
DrawX(i) ==
    Floor(F32Add(op.arg.glyphs[i].x, Unit \div 8)) \div Unit
    + Unwrap(LineOf(SessionOf(op.arg.font), op.arg.glyphs[i])).left

\* The i-th glyph of the last run was drawn, its top minus the underline
\* offset is less than its height, and it has a DescenderRegion
Intercepts(i) ==
    /\ op.log[i].drawn
    /\ LET entry == Unwrap(LineOf(SessionOf(op.arg.font), op.arg.glyphs[i]))
       IN /\ entry.top - UnderlineOffset(Style(op.arg.font)) < entry.height
          /\ entry.desc.start <= entry.desc.end

\* The expanded intercept of the i-th glyph of the last run
ExpandedIntercept(i) ==
    LET entry == Unwrap(LineOf(SessionOf(op.arg.font), op.arg.glyphs[i]))
    IN << DrawX(i) + entry.desc.start - 1, DrawX(i) + entry.desc.end + 1 >>

\* The non-empty ones of the spans [x0, a) and [b, x0 + w) of the run
SpansAround(a, b) ==
    (IF RunRect.x < a THEN << << RunRect.x, a - RunRect.x >> >> ELSE << >>)
    \o (IF b < RunRect.x + RunRect.width
        THEN << << b, RunRect.x + RunRect.width - b >> >> ELSE << >>)

\* C15: in an underlined run the glyphs that contribute an intercept are the
\* drawn ones whose top minus the underline offset is less than their height
\* and that have a DescenderRegion [s, e); each contributes [gx+s-1, gx+e+1).
\* With a single such glyph the underline rectangles are exactly the
\* non-empty ones of [x0, gx+s-1) and [gx+e+1, x0+w).
C15_SingleGlyphUnderline ==
    DrewUnderlined =>
        LET hits == SelectSeq([i \in 1..Len(op.log) |-> i], Intercepts)
        IN /\ intercepts = [k \in 1..Len(hits) |-> ExpandedIntercept(hits[k])]
           /\ Len(hits) = 1 =>
                [k \in 1..Len(UnderlineRects) |->
                    << UnderlineRects[k].rect.x, UnderlineRects[k].rect.width >>]
                = SpansAround(ExpandedIntercept(hits[1])[1], ExpandedIntercept(hits[1])[2])

\* An underlined run of the one glyph whose descender ink is in its second
\* column, drawn at gx = 9 in the run [8, 14): the underline is [8, 9) and
\* [12, 14).
C15_Witness ==
    /\ DrewUnderlined /\ Len(op.log) = 1 /\ op.log[1].id = 6 /\ op.log[1].drawn
    /\ intercepts = << << 9, 12 >> >>
    /\ Len(UnderlineRects) = 2
    /\ UnderlineRects[1].rect.x = 8 /\ UnderlineRects[1].rect.width = 1
    /\ UnderlineRects[2].rect.x = 12 /\ UnderlineRects[2].rect.width = 2

\* The glyph primitives of the last run, in the order they were added
GlyphPrims == SelectSeq(Added, LAMBDA p : p.kind \in {"image", "mask"})

\* The primitive of the i-th glyph of the last run: a textured image for a
\* bitmap glyph, in the colour given, an alpha mask in the run's colour for
\* any other, at the glyph's draw rectangle and cached atlas location
GlyphPrimitive(i, bitmap_color) ==
    LET entry == Unwrap(LineOf(SessionOf(op.arg.font), op.arg.glyphs[i]))
        img == ic.images[op.log[i].ret]
    IN [kind |-> IF entry.is_bitmap THEN "image" ELSE "mask",
        rect |-> [x |-> DrawX(i),
                  y |-> Floor(F32Add(op.arg.glyphs[i].y, 0)) \div Unit - entry.top,
                  width |-> entry.width, height |-> entry.height],
        depth |-> Depth,
        color |-> IF entry.is_bitmap THEN bitmap_color ELSE Style(op.arg.font).color,
        tex |-> img.page,
        uv |-> << img.x, img.y, img.x + img.w, img.y + img.h >>]

\* Every glyph of the last run was processed; those that resolved were drawn
\* with one primitive each, in order, the others with none
OnePrimitivePerGlyph(bitmap_color) ==
    DrewGlyphs =>
        LET drawn == SelectSeq([i \in 1..Len(op.log) |-> i], LAMBDA i : op.log[i].drawn)
        IN /\ Len(op.log) = Len(op.arg.glyphs)
           /\ \A i \in 1..Len(op.log) :
                op.log[i].drawn <=> (op.log[i].ret # 0 /\ is_valid(ic, op.log[i].ret))
           /\ GlyphPrims = [k \in 1..Len(drawn) |-> GlyphPrimitive(drawn[k], bitmap_color)]

\* C16 as stated: each glyph that resolves to a cached entry with a resident
\* image is drawn with exactly one primitive, a textured image for a bitmap
\* glyph and an alpha mask otherwise, in both cases in the run's foreground
\* colour; a glyph that does not resolve is drawn with none and the rest of
\* the run is still processed.
C16_GlyphPrimitivesForeground == OnePrimitivePerGlyph(Style(op.arg.font).color)

\* C16, amended: as stated, except that the textured image of a bitmap glyph
\* is drawn in white, not in the run's foreground colour.
C16_GlyphPrimitives == OnePrimitivePerGlyph("white")

\* A run of a glyph without outline followed by a colour bitmap glyph: one
\* primitive, a textured image in white.
C16_Witness ==
    /\ DrewGlyphs /\ Len(op.log) = 2
    /\ op.log[1].id = 3 /\ ~op.log[1].drawn
    /\ op.log[2].id = 2 /\ op.log[2].drawn
    /\ Len(GlyphPrims) = 1 /\ GlyphPrims[1].kind = "image" /\ GlyphPrims[1].color = "white"

\* C17: finish hands the visitor every pending texture event, in the order
\* the events were queued, and leaves the queue empty; between two finish
\* calls events are only added at the end of the queue, and only by a call
\* that allocates, so an event is delivered exactly once and a finish that
\* follows a finish directly delivers none.
C17_EventsDeliveredOnce ==
    [][/\ IF op'.name = "finish"
          THEN /\ op'.events = ic.events
               /\ ic'.events = << >>
               /\ op'.list = build_display_list(batch)
          ELSE /\ Len(ic'.events) >= Len(ic.events)
               /\ SubSeq(ic'.events, 1, Len(ic.events)) = ic.events
               /\ Len(ic'.images) = Len(ic.images) => ic'.events = ic.events
       /\ (op.name = "finish" /\ op'.name = "finish") => op'.events = << >>]_vars

\* After one allocation finish was called twice in a row: the second call
\* delivered no event.
C17_Witness ==
    /\ op.name = "finish" /\ op.events = << >> /\ ic.events = << >>
    /\ calls = 3 /\ Len(ic.images) = 1

RECURSIVE Flatten(_)
\* The primitives of a display list, batch after batch
Flatten(list) == IF list = << >> THEN << >> ELSE Head(list).prims \o Flatten(Tail(list))

\* The rectangle primitive draw_rect submits
RectPrimitive ==
    [kind |-> "rect", rect |-> RunRect, depth |-> Depth, color |-> "fill",
     tex |-> 0, uv |-> << 0, 0, 0, 0 >>]

\* C18: begin() empties the batch accumulator, every draw call only appends
\* to it, no other call touches it, and the display list finish compiles
\* holds exactly its primitives in submission order: those submitted since
\* the most recent begin() and none of an earlier frame.
C18_ListOfCurrentFrame ==
    [][/\ op'.name = "begin" => batch' = << >>
       /\ op'.name = "finish" => (Flatten(op'.list) = batch /\ batch' = batch)
       /\ op'.name \in {"add_image", "get_image", "remove_image"} => batch' = batch
       /\ op'.name = "draw_rect" => batch' = Append(batch, RectPrimitive)
       /\ op'.name \in {"draw_image", "draw_glyphs"} =>
            (Len(batch') >= Len(batch) /\ SubSeq(batch', 1, Len(batch)) = batch)]_vars

\* An underlined run was drawn in an earlier frame (its intercepts are still
\* there); the list compiled in this frame holds only this frame's rectangle.
C18_Witness ==
    /\ op.name = "finish" /\ epoch >= 1 /\ intercepts # << >>
    /\ Flatten(op.list) = << RectPrimitive >>

\* The requests (font id, coords) of the sessions opened so far
Requested == { op.log[i] : i \in 1..Len(op.log) }

\* C19: the stored key built from a coordinate slice equals the borrowed
\* lookup key of the same slice, whatever its length, and of no other slice;
\* so the font map holds one entry per distinct (font id, coordinate
\* sequence) requested: an equal request finds the entry, a request that
\* differs in an element or in length (trailing zeros included) adds one.
C19_KeyEquality ==
    op.name = "session" =>
        /\ \A a \in Requested, b \in Requested :
             CoordsEq(CoordsNew(a[2]), CoordsRef(b[2])) <=> a[2] = b[2]
        /\ Cardinality(DOMAIN fonts) = Cardinality(Requested)
        /\ \A a \in Requested : Cardinality(FindFont(fonts, a[1], a[2])) = 1

\* Two sessions for one font whose coordinates differ only by a trailing
\* zero, stored inline: two font entries.
C19_Witness ==
    /\ op.name = "session" /\ Len(op.log) = 2
    /\ op.log[1] = << 1, << 3 >> >> /\ op.log[2] = << 1, << 3, 0 >> >>
    /\ Cardinality(DOMAIN fonts) = 2

\* Resident evictable images last used more than the retention window ago
Unused ==
    { i \in 1..Len(ic.images) :
        /\ ic.images[i].valid /\ ic.images[i].evictable
        /\ ic.images[i].epoch + ImageRetention < epoch }

\* A request for an image of the size of image i
SameSize(i) ==
    [width |-> ic.images[i].w, height |-> ic.images[i].h, has_alpha |-> FALSE,
     evictable |-> TRUE]

PinnedImages == { i \in 1..Len(ic.images) : ic.images[i].valid /\ ~ic.images[i].evictable }

\* C21: an image added with evictable = false is never reclaimed automatically:
\* whatever the Compositor does next, other than remove_image on that very
\* id, the image is still resident, at the same place of the same page, and
\* get returns that location.
C21_PinnedNeverReclaimed ==
    [][\A i \in PinnedImages :
          ~(op'.name = "remove_image" /\ op'.arg = i)
          => /\ is_valid(ic', i)
             /\ ~ic'.images[i].evictable
             /\ Location(ic'.images[i]) = Location(ic.images[i])
             /\ get(ic', epoch', i).loc = Some(Location(ic.images[i]))]_vars

\* A pinned image, unused for longer than the retention window, is still
\* resident after an allocation that found its page full and took a new page.
C21_Witness ==
    /\ op.name = "add_image" /\ IsSome(op.ret) /\ op.arg.evictable
    /\ ic.pages = 2
    /\ \E i \in PinnedImages : ic.images[i].epoch + ImageRetention < epoch

\* Requests of every size up to one texel beyond the texture size
SizedRequests ==
    [width : 1..(MaxTextureSize + 1), height : 1..(MaxTextureSize + 1),
     has_alpha : {FALSE}, evictable : BOOLEAN]

Fits(req) == req.width <= MaxTextureSize /\ req.height <= MaxTextureSize

ValidImages(cache) == { i \in 1..Len(cache.images) : cache.images[i].valid }

\* The image lies within its page and shares no texel with another resident
\* image of that page
WellPlaced(cache, id) ==
    /\ cache.images[id].page \in 1..cache.pages
    /\ cache.images[id].x + cache.images[id].w <= MaxTextureSize
    /\ cache.images[id].y + cache.images[id].h <= MaxTextureSize
    /\ \A j \in ValidImages(cache) \ {id} :
          \/ cache.images[j].page # cache.images[id].page
          \/ cache.images[j].x + cache.images[j].w <= cache.images[id].x
          \/ cache.images[id].x + cache.images[id].w <= cache.images[j].x
          \/ cache.images[j].y + cache.images[j].h <= cache.images[id].y
          \/ cache.images[id].y + cache.images[id].h <= cache.images[j].y

\* What C22 asks of the result a of allocating req in cache at epoch e
AllocateAsSpecified(cache, e, req, a) ==
    /\ IsSome(a.id) <=> Fits(req)
    /\ ~IsSome(a.id) => a.ic = cache
    /\ IsSome(a.id) =>
          /\ Unwrap(a.id) \notin ValidImages(cache)
          /\ is_valid(a.ic, Unwrap(a.id))
          /\ a.ic.images[Unwrap(a.id)].w = req.width
          /\ a.ic.images[Unwrap(a.id)].h = req.height
          /\ WellPlaced(a.ic, Unwrap(a.id))
          /\ a.ic.pages \in { cache.pages, cache.pages + 1 }
          /\ ValidImages(a.ic) \ { Unwrap(a.id) } \subseteq ValidImages(cache)
          /\ \A j \in ValidImages(cache) \ ValidImages(a.ic) :
                /\ cache.images[j].evictable
                /\ cache.images[j].epoch + ImageRetention < e
                /\ a.ic.pages = cache.pages

\* C22: allocate returns None exactly when the requested width or height
\* exceeds the maximum texture dimension; a request that fits an empty page
\* always succeeds, placed in free space, in the room of reclaimed stale
\* evictable images, or in a new page, and a failed allocation leaves the
\* cache as it was.  It holds for the add_image that ran last and for every
\* request that could be made next.
C22_AllocateFailsOnlyOversize ==
    /\ op.name = "add_image" => (IsSome(op.ret) <=> Fits(op.arg))
    /\ \A req \in SizedRequests :
          AllocateAsSpecified(ic, epoch, req, allocate(ic, epoch, req, UserOwned))

\* add_image was refused for a request wider than a page while an image
\* was resident, and the image is still resident.
C22_Witness ==
    /\ op.name = "add_image" /\ op.ret = None /\ ~Fits(op.arg)
    /\ ValidImages(ic) # {}

\* Resident images whose last use is the current epoch
UsedNow == { i \in ValidImages(ic) : ic.images[i].epoch = epoch }

\* C23: get on a still-valid id, repeated within one epoch, returns the same
\* ImageLocation each time: the location get_image or draw_image just
\* obtained is what the next get returns, a second get changes nothing more,
\* and an image used in the current epoch keeps its location through every
\* other call of the same epoch short of its removal.  is_valid answers the
\* same before and after and leaves the last-used epoch alone.
C23_GetRepeatable ==
    [][/\ (op'.name \in {"get_image", "draw_image"} /\ IsSome(op'.ret))
          => /\ is_valid(ic', op'.arg)
             /\ ic'.images[op'.arg].epoch = epoch'
             /\ get(ic', epoch', op'.arg).loc = op'.ret
             /\ get(ic', epoch', op'.arg).ic = ic'
       /\ \A i \in UsedNow :
             (epoch' = epoch /\ ~(op'.name = "remove_image" /\ op'.arg = i))
             => /\ is_valid(ic', i)
                /\ get(ic', epoch', i).loc = get(ic, epoch, i).loc
       /\ \A i \in ValidImages(ic) :
             /\ is_valid(get(ic, epoch, i).ic, i)
             /\ (op'.name \in {"finish", "draw_rect"} \/ ~is_valid(ic', i)
                 \/ ic'.images[i].epoch \in { ic.images[i].epoch, epoch' })]_vars

\* get_image returned the location of an image that had already been used in
\* the current epoch, in a frame after the one that added it.
C23_Witness ==
    /\ op.name = "get_image" /\ IsSome(op.ret)
    /\ epoch >= 1 /\ calls = MaxCalls
    /\ op.ret = Some(Location(ic.images[op.arg]))
    /\ ic.images[op.arg].epoch = epoch

\* C24: remove_image(id) returns true exactly when the image was resident at
\* the time of the call, whatever its age or evictable flag; afterwards
\* is_valid(id) is false and get returns None, no other image is touched,
\* and the id never becomes valid again, so that get_image returns None and
\* draw_image draws nothing for it; on an id that is already invalid
\* remove_image returns false and changes nothing.
C24_RemoveImage ==
    [][/\ op'.name = "remove_image"
          => /\ op'.ret = Some(is_valid(ic, op'.arg))
             /\ ~is_valid(ic', op'.arg)
             /\ get(ic', epoch', op'.arg) = [ic |-> ic', loc |-> None]
             /\ ValidImages(ic') = ValidImages(ic) \ { op'.arg }
             /\ \A j \in ValidImages(ic') : ic'.images[j] = ic.images[j]
             /\ ic'.events = ic.events /\ ic'.pages = ic.pages
             /\ ~is_valid(ic, op'.arg) => ic' = ic
             /\ UNCHANGED << epoch, fonts, batch, intercepts >>
       /\ \A i \in (1..Len(ic.images)) \ ValidImages(ic) :
             /\ ~is_valid(ic', i)
             /\ (op'.name \in {"get_image", "draw_image"} /\ op'.arg = i)
                => (op'.ret = None /\ batch' = batch /\ ic' = ic)]_vars

\* remove_image returned true for a pinned image, and for an image that had
\* been idle for longer than the retention window.
C24_Witness ==
    /\ op.name = "remove_image" /\ op.ret = Some(TRUE)
    /\ epoch > ImageRetention + 1
    /\ ~is_valid(ic, op.arg)

\* remove_image returned false for an id that had already been removed.
C24_WitnessAgain ==
    /\ op.name = "remove_image" /\ op.ret = Some(FALSE)
    /\ ~is_valid(ic, op.arg)

\* The key batches are grouped by
GroupKey(x) == << x.kind, x.tex >>

\* C26: the display list finish compiles contains every primitive submitted
\* in the frame exactly once, in batches of one texture and one primitive
\* kind each; the primitives of a batch are in submission order (the
\* batches laid end to end are the submissions as made), neighbouring
\* batches differ in texture or kind, and each primitive carries the depth it
\* was submitted with: depth never reorders anything.
C26_DisplayListGroups ==
    op.name = "finish" =>
        /\ Flatten(op.list) = batch
        /\ \A g \in 1..Len(op.list) :
              /\ op.list[g].prims # << >>
              /\ \A k \in 1..Len(op.list[g].prims) :
                    GroupKey(op.list[g].prims[k]) = GroupKey(op.list[g])
        /\ \A g \in 1..(Len(op.list) - 1) : GroupKey(op.list[g]) # GroupKey(op.list[g + 1])

\* A list of two batches: the first holds two mask primitives of one texture
\* with the deeper one submitted first, the second a rectangle.
C26_Witness ==
    /\ op.name = "finish" /\ Len(op.list) = 2
    /\ Len(op.list[1].prims) = 2 /\ op.list[1].kind = "mask"
    /\ op.list[1].prims[1].depth > op.list[1].prims[2].depth
    /\ op.list[2].kind = "rect"

\* Pixel (x, y) of a glyph image holds ink: non-zero alpha, or a non-zero channel
HasInk(image, x, y) ==
    IF image.content = "Mask" THEN image.data[y * image.width + x + 1] # 0
    ELSE \E c \in 1..4 : image.data[4 * (y * image.width + x) + c] # 0

\* Columns holding ink in one of the rows
InkColumns(image, rows) ==
    { x \in 0..(image.width - 1) : \E y \in rows : HasInk(image, x, y) }

\* [start, end) of a set of columns, None if there is none
Span(cols) ==
    IF cols = {} THEN None
    ELSE Some(<< CHOOSE a \in cols : \A b \in cols : a <= b,
                 (CHOOSE a \in cols : \A b \in cols : a >= b) + 1 >>)

\* The rows DescenderRegion::new scans: those after row `top`, when that
\* row index is at least -1
ScannedRows(image) ==
    IF image.top + 1 >= 0 THEN (image.top + 1)..(image.height - 1) ELSE {}

\* The rows of the image after row `top`
RowsUnderTop(image) == { y \in 0..(image.height - 1) : y > image.top }

\* C27 as stated: the region is the span of the ink columns of the rows
\* under the top, and is absent exactly when there is no such ink or the
\* top is negative (the glyph lies entirely below the baseline).
C27_AbsentForNegativeTop ==
    op.name = "descender" =>
        DescRange(Unwrap(op.ret)) =
            IF op.arg.top < 0 THEN None
            ELSE Span(InkColumns(op.arg, RowsUnderTop(op.arg)))

\* C27 (amended): the region is computed over the rows top+1 .. height-1 when
\* top >= -1 and over no row otherwise; it is [start, end) with start the
\* smallest column holding ink in a scanned row and end one past the largest,
\* and range() is None exactly when no scanned row holds ink.  A glyph with
\* top = -1 has all its rows scanned; one with top <= -2 has none.
C27_DescenderRegion ==
    op.name = "descender" =>
        /\ DescRange(Unwrap(op.ret)) = Span(InkColumns(op.arg, ScannedRows(op.arg)))
        /\ (op.arg.top < -1 \/ op.arg.top >= op.arg.height - 1)
           => DescRange(Unwrap(op.ret)) = None

\* A glyph with top = -1 and ink in two separate columns gets a region.
C27_Witness ==
    /\ op.name = "descender" /\ op.arg.top = -1
    /\ op.arg.width = 3 /\ op.arg.height = 2
    /\ DescRange(Unwrap(op.ret)) = Some(<< 0, 3 >>)
    /\ ~HasInk(op.arg, 1, 0) /\ ~HasInk(op.arg, 1, 1)

\* floor(a / b) for b > 0
FloorDiv(a, b) == IF a >= 0 THEN a \div b ELSE 0 - ((b - 1 - a) \div b)

\* The placement the rasterizer gives the i-th glyph of the last run
PlacementOf(i) == Unwrap(Render(op.arg.font[1], op.arg.glyphs[i].id, << 0, 0 >>))

\* The rectangle C28 gives the i-th glyph of the last run, in exact arithmetic
\* on positions in units of 2^-20 pixel
PlacedRect(i) ==
    [x |-> FloorDiv(8 * op.arg.glyphs[i].x + Unit, 8 * Unit) + PlacementOf(i).left,
     y |-> FloorDiv(op.arg.glyphs[i].y, Unit) - PlacementOf(i).top,
     width |-> PlacementOf(i).width, height |-> PlacementOf(i).height]

\* C28: the draw rectangle of a glyph requested at (x, y) whose rasterized
\* placement is (left, top, width, height) is at gx = floor(x + 0.125) + left,
\* gy = floor(y) - top and has size width x height: the bias is added to x
\* only.
C28_GlyphRectangle ==
    DrewGlyphs =>
        LET drawn == SelectSeq([i \in 1..Len(op.log) |-> i], LAMBDA i : op.log[i].drawn)
        IN /\ Len(GlyphPrims) = Len(drawn)
           /\ \A k \in 1..Len(drawn) : GlyphPrims[k].rect = PlacedRect(drawn[k])

\* A bitmap glyph with left = 1, top = 1 requested at (9.9, 20.9) is drawn at
\* (11, 19), and an outline glyph requested at about (-0.05, 20.9) at (0, 20).
C28_Witness ==
    /\ DrewGlyphs /\ Len(op.log) = 2 /\ Len(GlyphPrims) = 2
    /\ op.arg.glyphs[1] = [id |-> 2, x |-> X990, y |-> Y2090]
    /\ GlyphPrims[1].rect = [x |-> 11, y |-> 19, width |-> 1, height |-> 1]
    /\ op.arg.glyphs[2] = [id |-> 1, x |-> XNeg005, y |-> Y2090]
    /\ GlyphPrims[2].rect = [x |-> 0, y |-> 20, width |-> 1, height |-> 2]

\* The glyph map of the session's font entry
LinesOf(f, ses) == f[ses.font_entry].rasterized_glyphs

\* C29: every RasterizedGlyph that Session.get returns references an image
\* that is valid at the moment of return, and is the line cached under the
\* request's key.  A cached line whose image was invalidated is never
\* returned: the glyph is rasterized again and registered as a new evictable
\* image under a fresh id, and the new line takes the place of the stale one
\* under the same key, the glyph map keeping the keys it had.  In the runs
\* drawn, every glyph that get returned was found resident by get_image.
C29_ReturnedGlyphsValid ==
    /\ DrewGlyphs => \A i \in 1..Len(op.log) : op.log[i].ret # 0 => op.log[i].drawn
    /\ \A font \in RunFonts, glyph \in Glyphs :
        LET ses == SessionOf(font)
            line == LineOf(ses, glyph)
            r == session_get(ses.fonts, ic, ses, glyph.id, glyph.x, glyph.y)
            ret == Unwrap(r.ret)
        IN /\ IsSome(r.ret)
              => /\ is_valid(r.ic, ret.image_id)
                 /\ LineOf([ses EXCEPT !.fonts = r.fonts], glyph) = r.ret
           /\ (IsSome(line) /\ ~is_valid(ic, Unwrap(line).image_id))
              => /\ r.rendered
                 /\ r.ret # line
                 /\ IsSome(r.ret)
                    => /\ ret.image_id \notin 1..Len(ic.images)
                       /\ r.ic.images[ret.image_id].evictable
                       /\ r.ic.images[ret.image_id].owner = GlyphOwned(ses.font_entry)
                       /\ DOMAIN LinesOf(r.fonts, ses) = DOMAIN LinesOf(ses.fonts, ses)
                       /\ \A k \in DOMAIN LinesOf(r.fonts, ses) :
                             LinesOf(r.fonts, ses)[k] # ret
                             => LinesOf(r.fonts, ses)[k] = LinesOf(ses.fonts, ses)[k]

\* A glyph whose image had been removed was asked for again: the lookup
\* rasterized it, and the font's only line now references the new image
\* while the old image is invalid.
C29_Witness ==
    /\ DrewGlyphs /\ Len(op.log) = 1
    /\ op.log[1].rendered /\ op.log[1].ret = 2 /\ op.log[1].drawn
    /\ ~is_valid(ic, 1) /\ ic.images[1].owner = ic.images[2].owner
    /\ \A k \in DOMAIN fonts :
          /\ Cardinality(DOMAIN fonts[k].rasterized_glyphs) = 1
          /\ \A key \in DOMAIN fonts[k].rasterized_glyphs :
                fonts[k].rasterized_glyphs[key].image_id = 2

\* The keys of a font map that stand for (font id, logical coords)
EntriesFor(f, font) == { k \in DOMAIN f : k[1] = font[1] /\ as_ref(k[2]) = font[2] }

\* No two keys of a font map stand for the same (font id, logical coords)
OneEntryPerFont(f) ==
    \A k1 \in DOMAIN f, k2 \in DOMAIN f :
        (k1[1] = k2[1] /\ as_ref(k1[2]) = as_ref(k2[2])) => k1 = k2

\* C30: opening a session sets the last-used epoch of the font entry for
\* (font id, coords) to the current epoch, creating an empty entry if there
\* is none and keeping the entry's glyphs if there is one; no other font
\* entry changes, and there is never more than one entry for the same font
\* id and logical coords.  After every draw_glyphs call, an empty run
\* included, the entry of the run's font carries the current epoch.
C30_SessionStampsEntry ==
    /\ OneEntryPerFont(fonts)
    /\ DrewGlyphs
       => /\ Cardinality(EntriesFor(fonts, op.arg.font)) = 1
          /\ \A k \in EntriesFor(fonts, op.arg.font) : fonts[k].epoch = epoch
    /\ \A font \in RunFonts :
        LET ses == SessionOf(font)
            k == ses.font_entry
        IN /\ EntriesFor(ses.fonts, font) = { k }
           /\ ses.fonts[k].epoch = epoch
           /\ ses.epoch = epoch
           /\ DOMAIN ses.fonts = DOMAIN fonts \cup { k }
           /\ EntriesFor(fonts, font) \subseteq { k }
           /\ ses.fonts[k].rasterized_glyphs =
                 IF k \in DOMAIN fonts THEN fonts[k].rasterized_glyphs ELSE EmptyMap
           /\ \A k2 \in DOMAIN fonts \ { k } : ses.fonts[k2] = fonts[k2]
           /\ OneEntryPerFont(ses.fonts)

\* An empty run was drawn in a later frame with a font that had no entry:
\* its new entry is empty and carries the current epoch, and the entry of
\* the other font still carries the epoch of its own last use.
C30_Witness ==
    /\ DrewGlyphs /\ op.arg.glyphs = << >> /\ epoch >= 2
    /\ Cardinality(DOMAIN fonts) = 2
    /\ \A k \in EntriesFor(fonts, op.arg.font) :
          fonts[k].epoch = epoch /\ fonts[k].rasterized_glyphs = EmptyMap
    /\ \E k2 \in DOMAIN fonts : fonts[k2].epoch = epoch - 1

\* C31: in every reachable state of a Compositor the last-used epoch of
\* every font entry is at most the Compositor's current epoch.
C31_EntryEpochNotAhead ==
    \A k \in DOMAIN fonts : fonts[k].epoch <= epoch

\* Two font entries, one used in the current frame and one last used several
\* frames ago and not yet pruned.
C31_Witness ==
    /\ epoch >= 3
    /\ \E k1 \in DOMAIN fonts, k2 \in DOMAIN fonts :
          fonts[k1].epoch = epoch /\ fonts[k2].epoch + 2 < epoch

\* Resident images that a glyph-cache miss allocated
LiveGlyphImages(cache) ==
    { i \in ValidImages(cache) : cache.images[i].owner.kind = "glyph" }

\* The cached lines (font entry, glyph key) that reference image i
LinesTo(f, i) ==
    { kg \in UNION { { << k, g >> : g \in DOMAIN f[k].rasterized_glyphs } : k \in DOMAIN f } :
        f[kg[1]].rasterized_glyphs[kg[2]].image_id = i }

\* C32: no image leaks from the glyph cache: every image that a glyph-cache
\* miss allocated and that is still valid is referenced by exactly one
\* cached line of exactly one font entry, the entry it was allocated for,
\* so that a prune that drops every font entry leaves no glyph image valid.
C32_NoGlyphImageLeak ==
    /\ \A i \in LiveGlyphImages(ic) :
          /\ Cardinality(LinesTo(fonts, i)) = 1
          /\ \A kg \in LinesTo(fonts, i) : ic.images[i].owner = GlyphOwned(kg[1])
    /\ LiveGlyphImages(prune(fonts, ic, epoch + ImageRetention + 1).ic) = {}
    /\ op.name = "begin"
       => \A i \in 1..Len(ic.images) :
             (ic.images[i].owner.kind = "glyph" /\ ic.images[i].owner.font \in op.dropped)
             => ~is_valid(ic, i)

\* begin() has just dropped a font entry whose glyph image was still
\* resident, which released the image, while a user image stays resident.
C32_Witness ==
    /\ op.name = "begin" /\ op.dropped # {}
    /\ \E i \in 1..Len(ic.images) :
          /\ ic.images[i].owner.kind = "glyph" /\ ic.images[i].owner.font \in op.dropped
          /\ ~is_valid(ic, i)
    /\ \E j \in ValidImages(ic) : ic.images[j].owner.kind = "user"

\* Glyph images last used in the current frame or in the one before
RecentGlyphImages == { i \in LiveGlyphImages(ic) : ic.images[i].epoch + 1 >= epoch }

\* C33: every glyph that draw_glyphs draws has its image's last-used epoch
\* set to the current epoch.  A glyph image used in this frame or the last
\* one therefore survives whatever the next frame starts with: no
\* allocation reclaims it, the prune of begin() keeps it and its line, and
\* the lookup of its key is served from the cache without rasterizing; so a
\* glyph drawn in every frame is never reclaimed and never rasterized again.
C33_DrawnGlyphsRefreshed ==
    /\ DrewGlyphs
       => \A i \in 1..Len(op.log) :
             op.log[i].drawn
             => (is_valid(ic, op.log[i].ret) /\ ic.images[op.log[i].ret].epoch = epoch)
    /\ \A i \in RecentGlyphImages :
          /\ \A req \in SizedRequests :
                is_valid(allocate(ic, epoch, req, UserOwned).ic, i)
          /\ is_valid(prune(fonts, ic, epoch).ic, i)
          /\ \A kg \in LinesTo(fonts, i) :
                /\ kg[1] \in DOMAIN prune(fonts, ic, epoch).fonts
                /\ fonts[kg[1]].epoch >= ic.images[i].epoch
                /\ CachedHit(prune(fonts, ic, epoch).fonts[kg[1]],
                             prune(fonts, ic, epoch).ic, kg[2])
                   = Some(fonts[kg[1]].rasterized_glyphs[kg[2]])

\* A glyph was drawn from the cache in the tenth frame, without rasterizing:
\* its image, the only one ever allocated, now carries the current epoch.
C33_Witness ==
    /\ DrewGlyphs /\ epoch = MaxEpoch /\ Len(op.log) = 1
    /\ op.log[1].drawn /\ ~op.log[1].rendered
    /\ Len(ic.images) = 1 /\ op.log[1].ret = 1
    /\ ic.images[1].epoch = epoch

\* v rounded to the nearest whole number of pixels, halves away from zero;
\* v is in units of 2^-20 pixel
Nearest(v) ==
    IF v >= 0 THEN (2 * v + Unit) \div (2 * Unit)
    ELSE 0 - ((2 * (0 - v) + Unit) \div (2 * Unit))

\* The filled rectangles the last run added, in the order they were added
FilledRects == SelectSeq(Added, LAMBDA p : p.kind = "rect")

\* The rectangle p is an underline rectangle of the underline style ul
UnderlineRectOf(p, ul, baseline) ==
    /\ p.rect.width > 0
    /\ p.rect.height >= 1
    /\ p.rect.height = (IF Nearest(ul.size) < 1 THEN 1 ELSE Nearest(ul.size))
    /\ p.rect.y = baseline - Nearest(ul.offset)
    /\ p.depth = Depth
    /\ p.color = ul.color

\* C34: every underline rectangle draw_glyphs emits has strictly positive
\* width and a thickness of round(size), at least 1 pixel; it lies at
\* y = baseline - round(underline offset), carries the run's depth and the
\* underline colour, and comes after every glyph primitive of the run.  A
\* run without underline style emits no filled rectangle.
C34_UnderlineRectangles ==
    DrewGlyphs =>
        /\ ~IsSome(Style(op.arg.font).underline) => FilledRects = << >>
        /\ IsSome(Style(op.arg.font).underline)
           => \A k \in 1..Len(FilledRects) :
                 UnderlineRectOf(FilledRects[k], Unwrap(Style(op.arg.font).underline),
                                 Style(op.arg.font).baseline)
        /\ \A i \in 1..Len(Added), j \in 1..Len(Added) :
              (i < j /\ Added[i].kind = "rect") => Added[j].kind = "rect"

\* A hairline underline (offset -1.5, size 0.25) under an outline glyph: the
\* glyph primitive comes first, then one rectangle one pixel thick across
\* the run at y = baseline + 2.
C34_Witness ==
    /\ DrewGlyphs /\ Len(op.arg.font[2]) = 3
    /\ Len(Added) = 2 /\ Added[1].kind = "mask"
    /\ FilledRects = << Added[2] >>
    /\ Added[2].rect = [x |-> 8, y |-> 22, width |-> 6, height |-> 1]
    /\ Added[2].color = "hair"

\* C35: every underline rectangle draw_glyphs emits lies within the run's
\* horizontal extent [rect.x, rect.x + rect.width], and the rectangles of
\* one run do not overlap one another, wherever the intercepts lie.
C35_UnderlineWithinRun ==
    DrewGlyphs =>
        /\ \A k \in 1..Len(FilledRects) :
              /\ RunRect.x <= FilledRects[k].rect.x
              /\ FilledRects[k].rect.x + FilledRects[k].rect.width
                 <= RunRect.x + RunRect.width
        /\ \A k \in 1..Len(FilledRects), m \in 1..Len(FilledRects) :
              k < m =>
                 \/ FilledRects[k].rect.x + FilledRects[k].rect.width <= FilledRects[m].rect.x
                 \/ FilledRects[m].rect.x + FilledRects[m].rect.width <= FilledRects[k].rect.x

\* Two underline rectangles of one run share a pixel column, both inside
\* the run.
C35_Overlap ==
    /\ DrewGlyphs
    /\ \E k \in 1..Len(FilledRects), m \in 1..Len(FilledRects) :
          /\ k < m
          /\ FilledRects[k].rect.x < FilledRects[m].rect.x + FilledRects[m].rect.width
          /\ FilledRects[m].rect.x < FilledRects[k].rect.x + FilledRects[k].rect.width
    /\ \A i \in 1..Len(op.arg.glyphs) :
          /\ op.arg.glyphs[i].x >= RunRect.x * Unit
          /\ op.arg.glyphs[i].x < (RunRect.x + RunRect.width) * Unit

\* An underline rectangle reaches beyond the end of the run, or starts
\* before its start.
C35_Outside ==
    /\ DrewGlyphs
    /\ \E k \in 1..Len(FilledRects) :
          FilledRects[k].rect.x + FilledRects[k].rect.width > RunRect.x + RunRect.width
    /\ \E k \in 1..Len(FilledRects) : FilledRects[k].rect.x < RunRect.x

\* The distance, in units of 1/per pixel, between the position and the pixel
\* origin plus the value of the cached phase
SnapError(origin) ==
    Abs(origin + to_f32(qres[3]) \div (Unit \div qpos.per) - qpos.v)

\* The fraction of the position is 0.875 or more
TopEighth == 8 * (qpos.v % qpos.per) >= 7 * qpos.per

C36_OffByOne ==
    /\ qres # << >> /\ qpos = [per |-> 8, v |-> 8 * 2^21 + 6]
    /\ qres[3] = "ThreeQuarters" /\ qres[1] = 8 * (2^21 + 1)
    /\ SnapError(qres[1]) = 8

====
